---------------------------- MODULE Spec2Model ----------------------------
(***************************************************************************)
(* hcai-mini: the decision engine (src/app/policy/decisions.py), its       *)
(* safety envelope (src/app/policy/safety.py), the MPC proposer            *)
(* (src/app/models/mpc.py), the forecaster, the anomaly scorer, the        *)
(* feature store and the action ledger (src/app/storage/db.py).            *)
(*                                                                         *)
(* Units.  The code computes with floats; the model computes with exact    *)
(* integers in fixed-point units:                                          *)
(*   setpoint supply_temp_c      centi-degrees  (18.0 C  = 1800)           *)
(*   setpoint fan_rpm            deci-rpm       (1200 rpm = 12000)         *)
(*   telemetry temp_c            deci-degrees   (27.5 C  = 275)            *)
(*   telemetry power_kw          deci-kW        (5.5 kW  = 55)             *)
(*   telemetry hum_pct           percent                                   *)
(*   forecast values             deci-degrees times 20                     *)
(* Python None is <<>> and a present value v is <<v>>; an absent or empty  *)
(* string is "".  Topics are the tuples of their "/"-separated parts and   *)
(* mode strings are tuples of characters, so that startswith is computed.  *)
(***************************************************************************)
EXTENDS Integers, Sequences, FiniteSets, TLC

\* The number of operations (bus messages handled, HTTP calls) of one run.
MaxOps == 4

None == <<>>

Some(v) == <<v>>

Max(a, b) == IF a >= b THEN a ELSE b

Min(a, b) == IF a <= b THEN a ELSE b

Abs(a) == IF a >= 0 THEN a ELSE 0 - a

\* dict.get(key, default) on a value that may be absent
Get(opt, default) == IF opt = None THEN default ELSE opt[1]

\* str.startswith
StartsWith(s, prefix) ==
    /\ Len(s) >= Len(prefix)
    /\ SubSeq(s, 1, Len(prefix)) = prefix

\* json.dumps: the text of a value; json.loads reads it back
Dumps(v) == [json |-> v]

Loads(text) == text.json

\* isinstance(x, str) for a column that holds either text or a dict
IsText(x) == DOMAIN x = {"json"}

(***************************************************************************)
(* Safety envelope and MPC                                                 *)
(***************************************************************************)
\* api.py: limits, in centi-degrees and deci-rpm
Limits ==
    [temp_c  |-> [min |-> 1600, max |-> 2700,  max_delta_per_min |-> 100],
     fan_rpm |-> [min |-> 8000, max |-> 22000, max_delta_per_min |-> 2000]]

\* round(x, 1) of centi-degrees: the nearest tenth of a degree, ties to even
Round1(t) ==
    LET q == t \div 10
        r == t % 10
    IN  IF r < 5 THEN 10 * q
        ELSE IF r > 5 THEN 10 * (q + 1)
        ELSE IF q % 2 = 0 THEN 10 * q ELSE 10 * (q + 1)

\* int(x) of deci-rpm: truncation toward zero to whole rpm
IntTrunc(f) ==
    IF f >= 0 THEN 10 * (f \div 10) ELSE 0 - (10 * ((0 - f) \div 10))

clamp(value, lo, hi) == Max(lo, Min(hi, value))

\* a rate limit that steps back from the new value instead of on from the previous one
RateLimitFromNew(prev, new, max_delta) ==
    IF prev = None THEN new
    ELSE LET delta == new - prev[1]
         IN  IF Abs(delta) > max_delta
             THEN new + (IF delta > 0 THEN 0 - max_delta ELSE max_delta)
             ELSE new

RateLimit(prev, new, max_delta) ==
    IF prev = None THEN new
    ELSE LET delta == new - prev[1]
         IN  IF Abs(delta) > max_delta
             THEN prev[1] + (IF delta > 0 THEN max_delta ELSE 0 - max_delta)
             ELSE new

SafetySummary == "limits, rate limits applied"

\* an enforce that rate-limits the temperature against the current fan speed
EnforceSwappedPrev(current, proposed) ==
    LET temp_limits == Limits.temp_c
        fan_limits == Limits.fan_rpm
        temp0 == Max(temp_limits.min, Min(temp_limits.max, proposed.supply_temp_c))
        fan0 == Max(fan_limits.min, Min(fan_limits.max, proposed.fan_rpm))
        temp == RateLimit(current.fan_rpm, temp0, temp_limits.max_delta_per_min)
        fan == RateLimit(current.fan_rpm, fan0, fan_limits.max_delta_per_min)
    IN  [supply_temp_c |-> Round1(temp),
         fan_rpm |-> IntTrunc(fan),
         safety_summary |-> SafetySummary]

\* Safety.enforce; current.get(key) is None for a missing key
Enforce(current, proposed) ==
    LET temp_limits == Limits.temp_c
        fan_limits == Limits.fan_rpm
        temp0 == Max(temp_limits.min, Min(temp_limits.max, proposed.supply_temp_c))
        fan0 == Max(fan_limits.min, Min(fan_limits.max, proposed.fan_rpm))
        temp == RateLimit(current.supply_temp_c, temp0, temp_limits.max_delta_per_min)
        fan == RateLimit(current.fan_rpm, fan0, fan_limits.max_delta_per_min)
    IN  [supply_temp_c |-> Round1(temp),
         fan_rpm |-> IntTrunc(fan),
         safety_summary |-> SafetySummary]

\* a controller that already steps up at a lookahead of exactly 23 C
ProposeAtTarget(forecast_temp, current_set) ==
    LET target20 == 20 * 230
        lookahead == IF Len(forecast_temp) > 0 THEN Min(5, Len(forecast_temp) - 1) ELSE 0
        error == IF Len(forecast_temp) > 0 THEN forecast_temp[lookahead + 1] - target20 ELSE 0
        fan == Get(current_set.fan_rpm, 12000)
        supply == Get(current_set.supply_temp_c, 1800)
        delta_fan == IF error >= 0 THEN 1500 ELSE 0 - 1000
        delta_temp == IF error >= 0 THEN 0 - 30 ELSE 20
        new_fan == clamp(fan + delta_fan, Limits.fan_rpm.min, Limits.fan_rpm.max)
        new_supply == clamp(supply + delta_temp, Limits.temp_c.min, Limits.temp_c.max)
    IN  [supply_temp_c |-> Round1(new_supply), fan_rpm |-> IntTrunc(new_fan)]

\* MPCController.propose; forecast_temp holds deci-degrees times 20
Propose(forecast_temp, current_set) ==
    LET target20 == 20 * 230
        lookahead == IF Len(forecast_temp) > 0 THEN Min(5, Len(forecast_temp) - 1) ELSE 0
        error == IF Len(forecast_temp) > 0 THEN forecast_temp[lookahead + 1] - target20 ELSE 0
        fan == Get(current_set.fan_rpm, 12000)
        supply == Get(current_set.supply_temp_c, 1800)
        delta_fan == IF error > 0 THEN 1500 ELSE 0 - 1000
        delta_temp == IF error > 0 THEN 0 - 30 ELSE 20
        new_fan == clamp(fan + delta_fan, Limits.fan_rpm.min, Limits.fan_rpm.max)
        new_supply == clamp(supply + delta_temp, Limits.temp_c.min, Limits.temp_c.max)
    IN  [supply_temp_c |-> Round1(new_supply), fan_rpm |-> IntTrunc(new_fan)]


(***************************************************************************)
(* Feature store, forecaster, anomaly scorer                               *)
(***************************************************************************)
\* api.py: FeatureStore(window=120)
WindowSize == 120

\* api.py: Forecaster(horizon=30)
Horizon == 30

RECURSIVE SumRange(_, _, _)
SumRange(s, lo, hi) ==
    IF lo > hi THEN 0
    ELSE IF lo = hi THEN s[lo]
    ELSE LET mid == (lo + hi) \div 2
         IN  SumRange(s, lo, mid) + SumRange(s, mid + 1, hi)

\* the sum of a sequence (numpy mean is this sum over the length)
SumSeq(s) == SumRange(s, 1, Len(s))

Zeros(n) == [i \in 1..n |-> 0]

\* a deque without maxlen: nothing is ever evicted
AddUnbounded(buf, value) == Append(buf, value)

\* RollingWindow.add on a deque(maxlen=size)
Add(buf, value) ==
    IF Len(buf) >= WindowSize THEN Append(Tail(buf), value) ELSE Append(buf, value)

\* a window left-padded with its oldest sample
AsArrayPadEarliest(buf) ==
    IF Len(buf) = 0 THEN Zeros(WindowSize)
    ELSE IF Len(buf) < WindowSize
         THEN [i \in 1..(WindowSize - Len(buf)) |-> buf[1]] \o buf
         ELSE buf

\* RollingWindow.as_array: zeros when empty, else left-padded with arr[-1]
AsArray(buf) ==
    IF Len(buf) = 0 THEN Zeros(WindowSize)
    ELSE IF Len(buf) < WindowSize
         THEN [i \in 1..(WindowSize - Len(buf)) |-> buf[Len(buf)]] \o buf
         ELSE buf

\* Forecaster.predict; the result is in deci-degrees times 20 (the trend is a
\* difference over trend_window = 10 samples, halved, whenever it is not 0.0)
Predict(series0) ==
    LET series == IF Len(series0) = 0 THEN Zeros(10) ELSE series0
        n == Len(series)
        trend_window == IF n > 1 THEN Min(10, n - 1) ELSE 1
        diff == IF trend_window > 0 /\ n > trend_window + 1
                THEN series[n] - series[n - trend_window]
                ELSE 0
        preds == [i \in 1..Horizon |-> 20 * series[n] + i * diff]
    IN  [preds |-> preds,
         lo |-> [i \in 1..Horizon |-> preds[i] - 160],
         hi |-> [i \in 1..Horizon |-> preds[i] + 160]]

\* a score that raises no alarm for a window without any deviation
ScoreFlatIsQuiet(window_vec) ==
    LET n == Len(window_vec)
        dev == n * window_vec[n] - SumSeq(window_vec)
    IN  IF n = 0 THEN [dev |-> 0, n |-> 0, alarm |-> FALSE]
        ELSE [dev |-> dev, n |-> n,
              alarm |-> dev # 0 /\ dev * dev <= (300 * n * n) \div 97]

\* VAEAnomaly.score with threshold 0.97: err = (dev / (10 n))^2 in degrees
\* squared, score = 1 / (1 + err), alarm = score >= 0.97, that is
\* 97 * dev^2 <= 3 * (10 n)^2
Score(window_vec) ==
    LET n == Len(window_vec)
        dev == n * window_vec[n] - SumSeq(window_vec)
    IN  IF n = 0 THEN [dev |-> 0, n |-> 0, alarm |-> FALSE]
        ELSE [dev |-> dev, n |-> n, alarm |-> dev * dev <= (300 * n * n) \div 97]

(***************************************************************************)
(* Configuration read at construction                                      *)
(***************************************************************************)
\* policy.yaml as get_policy() returns it
Policy ==
    [site |-> Some("dc1"),
     limits |-> [temp_c |-> [max |-> 270]],
     power_alarm_kw |-> None,
     humidity |-> Some([min |-> Some(30), max |-> Some(70)])]

ModePropose == <<"p", "r", "o", "p", "o", "s", "e">>

ModeAutoLow == <<"a", "u", "t", "o", "_", "l", "o", "w">>

Auto == <<"a", "u", "t", "o">>

\* the values of MODE and of POST /mode
Modes == {ModePropose, ModeAutoLow}

(***************************************************************************)
(* Triggers                                                                *)
(***************************************************************************)
Cond(b, name) == IF b THEN <<name>> ELSE <<>>

\* _maybe_act, lines 166-190: the triggers in the order the code appends them
Triggers(window, preds, alarm, metrics) ==
    LET temp_limit == Policy.limits.temp_c.max
        idx == IF Len(preds) > 5 THEN 5 ELSE 0
        forecast_target == IF Len(preds) > 0 THEN Some(preds[idx + 1]) ELSE None
        current_temp == metrics.temp_c
        n == Len(window)
        power_kw == metrics.power_kw
        hum == metrics.hum_pct
        humidity_limits == Policy.humidity
    IN  Cond(alarm, "vae")
        \o Cond(current_temp # None /\ current_temp[1] >= temp_limit, "temp_limit")
        \o Cond(forecast_target # None /\ forecast_target[1] >= 20 * temp_limit, "forecast")
        \o Cond(n >= 6 /\ window[n] - window[n - 5] >= 8, "temp_trend")
        \o Cond(power_kw # None /\ power_kw[1] >= Get(Policy.power_alarm_kw, 55), "power_spike")
        \o Cond(/\ hum # None
                /\ humidity_limits # None
                /\ \/ hum[1] < Get(humidity_limits[1].min, 0 - 999)
                   \/ hum[1] > Get(humidity_limits[1].max, 999),
                "humidity")

Has(triggers, name) == \E i \in 1..Len(triggers) : triggers[i] = name

\* _maybe_act, lines 198-208
Reason(triggers) ==
    IF Has(triggers, "temp_limit") THEN "temperature_limit"
    ELSE IF Has(triggers, "temp_trend") THEN "temperature_trend"
    ELSE IF Has(triggers, "power_spike") THEN "power_spike"
    ELSE IF Has(triggers, "humidity") THEN "humidity_out_of_range"
    ELSE IF Has(triggers, "vae") THEN "anomaly"
    ELSE "forecast_risk_high"

\* _maybe_act, line 193: the setpoints taken as current
CurrentSetpoints == [supply_temp_c |-> Some(1800), fan_rpm |-> Some(12000)]

(***************************************************************************)
(* State                                                                   *)
(***************************************************************************)
VARIABLES
    mode,              \* DecisionEngine.mode
    auto_enabled,      \* DecisionEngine.auto_enabled
    buffers,           \* FeatureStore.buffers[rack]["temp_c"].buf
    dynamic_devices,   \* DecisionEngine.dynamic_devices ("" = no entry)
    rack_device_map,   \* DecisionEngine.rack_device_map ("" = no entry)
    latest_tiles,      \* DecisionEngine.latest_tiles
    ingest_count,
    last_ingest_ts,
    telemetry,         \* the tables of the ledger, oldest row first
    forecasts,
    anomalies,
    actions,
    receipts,
    audits,
    published,         \* what the engine has published on the bus, in order
    pc,                \* the bus dispatcher's position in the telemetry handler
    frame,             \* the telemetry handler's locals while an Action is in hand
    clock,             \* datetime.now(); one tick per operation
    status_updates,    \* history: the UPDATE actions SET status statements run
    approve_calls,     \* history: the approve_action calls and what they returned
    created_auto,      \* history: per Action, whether the auto gate held at its insert
    sf_pc,             \* Safety.enforce applied to inputs of its own
    sf_current,
    sf_proposed,
    sf_once,
    sf_twice,
    discovery_results,   \* DecisionEngine.discovery_results
    discovery_state,     \* DecisionEngine.discovery_state
    discovery_deadline,  \* DecisionEngine.discovery_deadline
    discovery_history,   \* DecisionEngine.discovery_history
    scans_total,         \* DISCOVER_SCANS_TOTAL
    devices_found_total, \* DISCOVER_DEVICES_FOUND_TOTAL
    durations,           \* DISCOVER_DURATION_SECONDS: the values observed
    listed,              \* what list_discoveries returned, until the next operation
    raw_seen,            \* the discover/raw messages delivered so far
    disc_ops,            \* the discovery calls, messages and clock steps so far
    feed,                \* the telemetry messages queued on the bus, oldest first
    mpc_pc,              \* MPCController.propose applied to inputs of its own
    mpc_forecast,
    mpc_current,
    mpc_out,
    pushed,              \* history: every value pushed into a rack's window, in order
    raised,              \* history: the exceptions that left handle_message
    unpublished,         \* history: the Actions whose publish the bus did not deliver
    http,                \* history: the responses of POST /actions/approve
    registry,            \* devices.yaml: the list under "devices"
    approved_total,      \* DISCOVER_DEVICES_APPROVED_TOTAL
    device_calls,        \* history: the approve_device calls and what they returned
    db_lock,             \* DB.lock: the thread that holds it, or None
    db_threads,          \* per thread, the ledger operation it is in and its position
    start_frame,         \* a start_discovery call in progress: its position and locals
    results_frame,       \* a discover/results handling in progress
    list_pc              \* the position of a list_discoveries call in progress

engineVars ==
    <<mode, auto_enabled, buffers, dynamic_devices, rack_device_map, latest_tiles,
      ingest_count, last_ingest_ts, telemetry, forecasts, anomalies, actions,
      receipts, audits, published, pc, frame, clock, status_updates,
      approve_calls, created_auto>>

safetyVars == <<sf_pc, sf_current, sf_proposed, sf_once, sf_twice>>

discoveryVars ==
    <<discovery_results, discovery_state, discovery_deadline, discovery_history,
      scans_total, devices_found_total, durations, listed, raw_seen, disc_ops>>

unitVars == <<mpc_pc, mpc_forecast, mpc_current, mpc_out, pushed>>

errorVars == <<raised, unpublished, http>>

registryVars == <<registry, approved_total, device_calls>>

lockVars == <<db_lock, db_threads>>

raceVars == <<start_frame, results_frame, list_pc>>

vars ==
    <<engineVars, safetyVars, discoveryVars, feed, unitVars, errorVars, registryVars,
      lockVars, raceVars>>

Racks == {"r1", "r2"}

NoMetrics == [temp_c |-> None, hum_pct |-> None, power_kw |-> None, airflow_cfm |-> None]

\* the TelemetryPoints the bus delivers (ts is stamped on delivery)
TelemetryPoints ==
    {[site |-> "dc1", rack |-> "r1", device_id |-> "dev1",
      metrics |-> [NoMetrics EXCEPT !.temp_c = Some(250)]],
     [site |-> "dc1", rack |-> "r1", device_id |-> "",
      metrics |-> [NoMetrics EXCEPT !.temp_c = Some(275)]],
     [site |-> "dc1", rack |-> "r1", device_id |-> "dev1",
      metrics |-> [NoMetrics EXCEPT !.temp_c = Some(0)]],
     [site |-> "dc1", rack |-> "r2", device_id |-> "",
      metrics |-> [NoMetrics EXCEPT !.power_kw = Some(60), !.hum_pct = Some(90)]]}

\* the ids POST /actions/approve is called with
ApproveIds == 1..2

NoFrame == [rack |-> "", ts |-> 0, action_id |-> 0, payload |-> None, gate |-> FALSE]

InitSafetyOff ==
    /\ sf_pc = "off"
    /\ sf_current = [supply_temp_c |-> None, fan_rpm |-> None]
    /\ sf_proposed = [supply_temp_c |-> 0, fan_rpm |-> 0]
    /\ sf_once = None
    /\ sf_twice = None

\* DecisionEngine.__init__ on an empty database; MODE chooses the mode
InitEngine ==
    /\ mode \in Modes
    /\ auto_enabled = TRUE
    /\ buffers = [r \in Racks |-> <<>>]
    /\ dynamic_devices = [r \in Racks |-> ""]
    /\ rack_device_map = [r \in Racks |-> IF r = "r2" THEN "crac2" ELSE ""]
    /\ latest_tiles = [r \in Racks |-> None]
    /\ ingest_count = 0
    /\ last_ingest_ts = None
    /\ telemetry = <<>>
    /\ forecasts = <<>>
    /\ anomalies = <<>>
    /\ actions = <<>>
    /\ receipts = <<>>
    /\ audits = <<>>
    /\ published = <<>>
    /\ pc = "idle"
    /\ frame = NoFrame
    /\ clock = 1
    /\ status_updates = <<>>
    /\ approve_calls = <<>>
    /\ created_auto = <<>>

\* DecisionEngine.__init__, lines 44-53: the discovery state machine at rest
InitDiscovery ==
    /\ discovery_results = <<>>
    /\ discovery_state = [status |-> "idle", message |-> <<"Idle">>, started_at |-> None,
                          completed_at |-> None, error |-> None]
    /\ discovery_deadline = None
    /\ discovery_history = <<>>
    /\ scans_total = 0
    /\ devices_found_total = 0
    /\ durations = <<>>
    /\ listed = None
    /\ raw_seen = 0
    /\ disc_ops = 0

InitUnitsOff ==
    /\ mpc_pc = "off"
    /\ mpc_forecast = <<>>
    /\ mpc_current = [supply_temp_c |-> None, fan_rpm |-> None]
    /\ mpc_out = None
    /\ pushed = [r \in Racks |-> <<>>]

InitErrors ==
    /\ raised = <<>>
    /\ unpublished = {}
    /\ http = <<>>

\* devices.yaml as the engine finds it: one device, on rack r2
InitialRegistry ==
    <<[id |-> "crac2", host |-> "10.0.0.9", proto |-> "modbus", port |-> 502, rack |-> "r2"]>>

InitRegistry ==
    /\ registry = InitialRegistry
    /\ approved_total = 0
    /\ device_calls = <<>>

\* the threads that call into the ledger: the bus dispatcher and an HTTP worker
Threads == {"dispatcher", "worker"}

NoDbCall == [op |-> "", todo |-> <<>>, failed |-> FALSE]

InitLockOff ==
    /\ db_lock = None
    /\ db_threads = [t \in Threads |-> NoDbCall]

NoStart == [pc |-> "idle", subnet |-> "", actor |-> "", now |-> 0]

NoResults == [pc |-> "idle", data |-> None, count |-> 0]

InitRaceOff ==
    /\ start_frame = NoStart
    /\ results_frame = NoResults
    /\ list_pc = "idle"

Init ==
    /\ InitEngine /\ InitSafetyOff /\ InitDiscovery /\ feed = <<>>
    /\ InitUnitsOff /\ InitErrors /\ InitRegistry /\ InitLockOff /\ InitRaceOff

(***************************************************************************)
(* Ledger                                                                  *)
(***************************************************************************)
\* a SELECT without its WHERE clause: the oldest row, whatever the id
GetOldest(rows, row_id) == IF rows # <<>> THEN Some(rows[1]) ELSE None

\* DB.get("actions", row_id): the row, or None
GetAction(rows, row_id) ==
    IF \E i \in 1..Len(rows) : rows[i].id = row_id
    THEN Some(rows[CHOOSE i \in 1..Len(rows) : rows[i].id = row_id])
    ELSE None

\* an UPDATE without its WHERE clause
UpdateEveryRow(rows, action_id, status) ==
    [i \in 1..Len(rows) |-> [rows[i] EXCEPT !.status = status]]

\* DB.update_action_status: UPDATE actions SET status = :status WHERE id = :id
UpdateActionStatus(rows, action_id, status) ==
    [i \in 1..Len(rows) |->
        IF rows[i].id = action_id THEN [rows[i] EXCEPT !.status = status] ELSE rows[i]]

\* an insert that reports success and stores nothing
RecordNothing(rows, action) == rows

\* DB.record_action: cmd_json is stored as text; the id is lastrowid
RecordAction(rows, action) ==
    Append(rows,
           [id |-> Len(rows) + 1,
            ts |-> action.ts,
            device_id |-> action.device_id,
            cmd_json |-> IF IsText(action.cmd_json) THEN action.cmd_json
                         ELSE Dumps(action.cmd_json),
            mode |-> action.mode,
            status |-> action.status,
            reason |-> action.reason,
            model_version |-> action.model_version,
            safety_summary |-> action.safety_summary])

\* record_audit
RecordAudit(rows, ts, actor, action, payload) ==
    Append(rows, [ts |-> ts, actor |-> actor, action |-> action, payload |-> payload])

(***************************************************************************)
(* Telemetry handling: _handle_telemetry and _maybe_act                    *)
(***************************************************************************)
\* _device_for_rack: the dynamic map first, then the registry; "" is None
DeviceForRack(dyn, rack) ==
    IF dyn[rack] # "" THEN dyn[rack] ELSE rack_device_map[rack]

\* a mapping written for every point, with or without a device_id
DynamicOverwritten(p) ==
    IF p.rack # "" THEN [dynamic_devices EXCEPT ![p.rack] = p.device_id]
    ELSE dynamic_devices

\* _handle_telemetry, lines 113-114
DynamicAfter(p) ==
    IF p.device_id # "" /\ p.rack # ""
    THEN [dynamic_devices EXCEPT ![p.rack] = p.device_id]
    ELSE dynamic_devices

\* _handle_telemetry, lines 115-117
BuffersAfter(p) ==
    IF p.metrics.temp_c # None
    THEN [buffers EXCEPT ![p.rack] = Add(@, p.metrics.temp_c[1])]
    ELSE buffers

\* an evaluation of the window as it was before the point was pushed
EvaluateBeforePush(p) ==
    LET window == AsArray(buffers[p.rack])
        fc == Predict(window)
        sc == Score(window)
    IN  [window |-> window, fc |-> fc, sc |-> sc,
         triggers |-> Triggers(window, fc.preds, sc.alarm, p.metrics)]

\* _maybe_act, lines 141-143 and 166-190: the window read after the push, the
\* forecast, the score and the triggers of a TelemetryPoint
Evaluate(p) ==
    LET window == AsArray(BuffersAfter(p)[p.rack])
        fc == Predict(window)
        sc == Score(window)
    IN  [window |-> window, fc |-> fc, sc |-> sc,
         triggers |-> Triggers(window, fc.preds, sc.alarm, p.metrics)]

\* an insert that stores sent before anything is published
InsertStatusSent(auto) == IF ~auto THEN "pending_manual" ELSE "sent"

\* _maybe_act, line 221: the status the row is inserted with
InsertStatus(auto) == IF ~auto THEN "pending_manual" ELSE "queued"

\* _maybe_act, line 234: the condition of the auto branch
AutoGate(auto, m) == auto /\ StartsWith(m, Auto)

\* a propose branch that puts the row back to queued
FinalStatusRequeue(gate) == IF gate THEN "sent" ELSE "queued"

\* _maybe_act, lines 237 and 241: the status set after the publish
FinalStatus(gate) == IF gate THEN "sent" ELSE "pending_manual"

SetTopic(device_id) == <<"ctrl", device_id, "set">>

ProposalsTopic == <<"ctrl", "proposals">>

\* a publish that goes to the device whatever the gate says
PublishTopicAlwaysSet(gate, device_id) == SetTopic(device_id)

\* _maybe_act, lines 235 and 239: the topic published on
PublishTopic(gate, device_id) == IF gate THEN SetTopic(device_id) ELSE ProposalsTopic

\* _maybe_act, lines 193-220: the command built for a point whose triggers fired
ActionPayload(p, ev, now) ==
    LET current == CurrentSetpoints
        proposal == Propose(ev.fc.preds, current)
        safe == Enforce(current, proposal)
        resolved == DeviceForRack(DynamicAfter(p), p.rack)
        device_id == IF resolved # "" THEN resolved ELSE Get(Policy.site, "device")
    IN  [ts |-> now,
         device_id |-> device_id,
         cmd |-> "setpoints",
         set |-> [supply_temp_c |-> safe.supply_temp_c, fan_rpm |-> safe.fan_rpm],
         mode |-> mode,
         reason |-> Reason(ev.triggers),
         ticket |-> "HCAI-BOOTSTRAP",
         constraints |-> Policy.limits,
         safety_summary |-> safe.safety_summary,
         explain |-> [rack |-> p.rack,
                      forecast_temp |-> ev.fc.preds[1],
                      risk_score |-> [dev |-> ev.sc.dev, n |-> ev.sc.n],
                      triggers |-> ev.triggers]]

\* _handle_telemetry, lines 110-135, and _maybe_act, lines 141-165: what every
\* TelemetryPoint writes before the triggers are looked at
Ingest(p, ev) ==
    /\ dynamic_devices' = DynamicAfter(p)
    /\ buffers' = BuffersAfter(p)
    /\ telemetry' = Append(telemetry,
                           [ts |-> clock, site |-> p.site, rack |-> p.rack,
                            temp_c |-> p.metrics.temp_c,
                            hum_pct |-> p.metrics.hum_pct,
                            power_kw |-> p.metrics.power_kw,
                            airflow_cfm |-> p.metrics.airflow_cfm,
                            raw_json |-> Dumps(p)])
    /\ latest_tiles' = [latest_tiles EXCEPT ![p.rack] =
                           Some([ts |-> clock, metrics |-> p.metrics])]
    /\ forecasts' = Append(forecasts,
                           [ts |-> clock, horizon_s |-> 60, rack |-> p.rack,
                            temp_pred |-> ev.fc.preds[1], temp_lo |-> ev.fc.lo[1],
                            temp_hi |-> ev.fc.hi[1], power_pred |-> None])
    /\ anomalies' = Append(anomalies,
                           [ts |-> clock, rack |-> p.rack,
                            score |-> [dev |-> ev.sc.dev, n |-> ev.sc.n],
                            threshold |-> 97,
                            is_alarm |-> IF ev.sc.alarm THEN 1 ELSE 0])

\* a TelemetryPoint for which no trigger fires: _maybe_act returns at line 192
TelemetryQuiet(p, ev) ==
    /\ ev.triggers = <<>>
    /\ Ingest(p, ev)
    /\ ingest_count' = ingest_count + 1
    /\ last_ingest_ts' = Some(clock)
    /\ UNCHANGED <<actions, pc, frame, created_auto>>

\* a TelemetryPoint with a firing trigger, up to the insert of its Action
\* (_maybe_act, lines 193-233)
TelemetryInsert(p, ev) ==
    /\ ev.triggers # <<>>
    /\ Ingest(p, ev)
    /\ LET action_payload == ActionPayload(p, ev, clock)
       IN  /\ actions' = RecordAction(actions,
                            [ts |-> action_payload.ts,
                             device_id |-> action_payload.device_id,
                             cmd_json |-> action_payload,
                             mode |-> mode,
                             status |-> InsertStatus(auto_enabled),
                             reason |-> action_payload.reason,
                             model_version |-> "bootstrap",
                             safety_summary |-> action_payload.safety_summary])
           /\ frame' = [rack |-> p.rack, ts |-> clock, action_id |-> Len(actions) + 1,
                        payload |-> Some(action_payload), gate |-> FALSE]
    /\ created_auto' = Append(created_auto, auto_enabled /\ StartsWith(mode, Auto))
    /\ pc' = "inserted"
    /\ UNCHANGED <<ingest_count, last_ingest_ts>>

\* handle_message, lines 68-70: a telemetry message is taken from the bus
HandleTelemetry(p) ==
    /\ pc = "idle"
    /\ clock <= MaxOps
    /\ LET ev == Evaluate(p)
       IN  TelemetryQuiet(p, ev) \/ TelemetryInsert(p, ev)
    /\ clock' = clock + 1
    /\ UNCHANGED <<mode, auto_enabled, rack_device_map, receipts, audits, published,
                   status_updates, approve_calls>>
    /\ UNCHANGED <<safetyVars, discoveryVars, feed, unitVars, registryVars, lockVars, raceVars, errorVars>>

\* _maybe_act, lines 234-236 and 238-240: the gate is evaluated and the command
\* published
TelemetryPublish ==
    /\ pc = "inserted"
    /\ LET gate == AutoGate(auto_enabled, mode)
           payload == frame.payload[1]
       IN  /\ published' = Append(published,
                                  [topic |-> PublishTopic(gate, payload.device_id),
                                   payload |-> payload])
           /\ frame' = [frame EXCEPT !.gate = gate]
    /\ pc' = "published"
    /\ UNCHANGED <<mode, auto_enabled, buffers, dynamic_devices, rack_device_map,
                   latest_tiles, ingest_count, last_ingest_ts, telemetry, forecasts,
                   anomalies, actions, receipts, audits, clock, status_updates,
                   approve_calls, created_auto>>
    /\ UNCHANGED <<safetyVars, discoveryVars, feed, unitVars, registryVars, lockVars, raceVars, errorVars>>

\* _maybe_act, lines 237 and 241, then _handle_telemetry, lines 137-138
TelemetryUpdate ==
    /\ pc = "published"
    /\ actions' = UpdateActionStatus(actions, frame.action_id, FinalStatus(frame.gate))
    /\ status_updates' = Append(status_updates,
                                [id |-> frame.action_id, status |-> FinalStatus(frame.gate)])
    /\ ingest_count' = ingest_count + 1
    /\ last_ingest_ts' = Some(frame.ts)
    /\ pc' = "idle"
    /\ frame' = NoFrame
    /\ UNCHANGED <<mode, auto_enabled, buffers, dynamic_devices, rack_device_map,
                   latest_tiles, telemetry, forecasts, anomalies, receipts, audits,
                   published, clock, approve_calls, created_auto>>
    /\ UNCHANGED <<safetyVars, discoveryVars, feed, unitVars, registryVars, lockVars, raceVars, errorVars>>

(***************************************************************************)
(* Receipts                                                                *)
(***************************************************************************)
\* edge/bridge.py on_command: the receipt the bridge answers a command with
BridgeReceipt(payload) ==
    [ts |-> payload.ts,
     device_id |-> payload.device_id,
     status |-> "applied",
     applied |-> payload.set,
     latency_ms |-> 100,
     notes |-> "edge write"]

IsSetTopic(topic) == Len(topic) = 3 /\ topic[1] = "ctrl" /\ topic[3] = "set"

\* the receipts the bus can deliver: the bridge's answers to the commands
\* published on ctrl/<device_id>/set, and a receipt that answers none of them
ReceiptsInFlight ==
    {BridgeReceipt(published[i].payload) :
        i \in {j \in 1..Len(published) :
                  /\ IsSetTopic(published[j].topic)
                  /\ published[j].payload.device_id # ""}}
    \cup {[ts |-> clock, device_id |-> "dev1", status |-> "applied",
           applied |-> [supply_temp_c |-> 1800, fan_rpm |-> 12000],
           latency_ms |-> 100, notes |-> "edge write"]}

\* DB.record_receipt: one INSERT INTO receipts
RecordReceipt(rows, receipt) ==
    Append(rows,
           [receipt EXCEPT !.applied_json =
               IF IsText(@) THEN @ ELSE Dumps(@)])

\* the Actions a receipt names exactly: same device_id and same ts
Matching(rows, data) ==
    {i \in 1..Len(rows) : rows[i].device_id = data.device_id /\ rows[i].ts = data.ts}

\* handle_message, lines 71-80
HandleReceipt(data) ==
    /\ pc = "idle"
    /\ clock <= MaxOps
    /\ receipts' = RecordReceipt(receipts,
                                 [ts |-> data.ts,
                                  device_id |-> data.device_id,
                                  status |-> data.status,
                                  applied_json |-> Dumps(data.applied),
                                  latency_ms |-> data.latency_ms,
                                  notes |-> data.notes])
    /\ clock' = clock + 1
    /\ UNCHANGED <<mode, auto_enabled, buffers, dynamic_devices, rack_device_map,
                   latest_tiles, ingest_count, last_ingest_ts, telemetry, forecasts,
                   anomalies, actions, audits, published, pc, frame, status_updates,
                   approve_calls, created_auto>>
    /\ UNCHANGED <<safetyVars, discoveryVars, feed, unitVars, registryVars, lockVars, raceVars, errorVars>>

(***************************************************************************)
(* Operator calls                                                          *)
(***************************************************************************)
ApprovedStatus == "sent"

\* approve_action, lines 322-323: the stored command and the topic it names
StoredCommand(row) == IF IsText(row.cmd_json) THEN Loads(row.cmd_json) ELSE row.cmd_json

\* DecisionEngine.approve_action
ApproveAction(action_id) ==
    /\ clock <= MaxOps
    /\ LET action == GetAction(actions, action_id)
       IN  IF action = None
           THEN /\ approve_calls' = Append(approve_calls, [id |-> action_id, ok |-> FALSE])
                /\ UNCHANGED <<actions, published, status_updates>>
           ELSE /\ published' = Append(published,
                                       [topic |-> SetTopic(StoredCommand(action[1]).device_id),
                                        payload |-> StoredCommand(action[1])])
                /\ actions' = UpdateActionStatus(actions, action_id, ApprovedStatus)
                /\ status_updates' = Append(status_updates,
                                            [id |-> action_id, status |-> ApprovedStatus])
                /\ approve_calls' = Append(approve_calls, [id |-> action_id, ok |-> TRUE])
    /\ clock' = clock + 1
    /\ UNCHANGED <<mode, auto_enabled, buffers, dynamic_devices, rack_device_map,
                   latest_tiles, ingest_count, last_ingest_ts, telemetry, forecasts,
                   anomalies, receipts, audits, pc, frame, created_auto>>
    /\ UNCHANGED <<safetyVars, discoveryVars, feed, unitVars, registryVars, lockVars, raceVars, raised, unpublished>>

\* api.py, POST /actions/approve: the handler and the response it gives; a
\* payload without an id, or with an id that is false in Python, is refused
ApiApproveAction(payload) ==
    LET action_id == payload.id
    IN  IF action_id = None \/ action_id[1] = 0
        THEN /\ clock <= MaxOps
             /\ http' = Append(http, [request |-> payload, status |-> 400,
                                      detail |-> "id required"])
             /\ clock' = clock + 1
             /\ UNCHANGED <<mode, auto_enabled, buffers, dynamic_devices, rack_device_map,
                            latest_tiles, ingest_count, last_ingest_ts, telemetry, forecasts,
                            anomalies, actions, receipts, audits, published, pc, frame,
                            status_updates, approve_calls, created_auto>>
             /\ UNCHANGED <<safetyVars, discoveryVars, feed, unitVars, registryVars, lockVars, raceVars, raised, unpublished>>
        ELSE /\ ApproveAction(action_id[1])
             /\ http' = Append(http,
                               IF approve_calls'[Len(approve_calls')].ok
                               THEN [request |-> payload, status |-> 200,
                                     detail |-> "sent"]
                               ELSE [request |-> payload, status |-> 404,
                                     detail |-> "action not found"])

\* DecisionEngine.set_mode
SetMode(m) ==
    /\ clock <= MaxOps
    /\ mode' = m
    /\ audits' = RecordAudit(audits, clock, "system", "mode_change", [mode |-> m])
    /\ clock' = clock + 1
    /\ UNCHANGED <<auto_enabled, buffers, dynamic_devices, rack_device_map,
                   latest_tiles, ingest_count, last_ingest_ts, telemetry, forecasts,
                   anomalies, actions, receipts, published, pc, frame, status_updates,
                   approve_calls, created_auto>>
    /\ UNCHANGED <<safetyVars, discoveryVars, feed, unitVars, registryVars, lockVars, raceVars, errorVars>>

\* DecisionEngine.set_auto
SetAuto(enabled) ==
    /\ clock <= MaxOps
    /\ auto_enabled' = enabled
    /\ audits' = RecordAudit(audits, clock, "system", "auto_toggle", [auto_enabled |-> enabled])
    /\ clock' = clock + 1
    /\ UNCHANGED <<mode, buffers, dynamic_devices, rack_device_map,
                   latest_tiles, ingest_count, last_ingest_ts, telemetry, forecasts,
                   anomalies, actions, receipts, published, pc, frame, status_updates,
                   approve_calls, created_auto>>
    /\ UNCHANGED <<safetyVars, discoveryVars, feed, unitVars, registryVars, lockVars, raceVars, errorVars>>

\* the calls an HTTP worker makes into the engine
OperatorCall ==
    \/ \E id \in ApproveIds : ApiApproveAction([id |-> Some(id)])
    \/ \E m \in Modes : SetMode(m)
    \/ \E b \in BOOLEAN : SetAuto(b)

\* Every handler runs to completion: the bus dispatcher handles one message at
\* a time, and operator calls arrive between two messages.
Next ==
    \/ \E p \in TelemetryPoints : HandleTelemetry(p)
    \/ TelemetryPublish
    \/ TelemetryUpdate
    \/ \E data \in ReceiptsInFlight : HandleReceipt(data)
    \/ pc = "idle" /\ OperatorCall

Spec == Init /\ [][Next]_vars

(***************************************************************************)
(* Safety.enforce on inputs of its own                                     *)
(***************************************************************************)
\* current setpoints: absent, outside and inside [min, max], on and off the
\* grid of tenths of a degree and of whole rpm
SafetyCurrents ==
    [supply_temp_c : {None} \cup {Some(t) : t \in {1000, 1494, 1500, 1550, 1600, 1800, 1806, 2700, 2794, 2800, 3000}},
     fan_rpm : {None} \cup {Some(f) : f \in {0 - 3005, 5995, 6000, 7000, 8000, 12000, 12005, 22000, 24000, 30000}}]

SafetyProposals ==
    [supply_temp_c : {500, 1600, 1704, 1770, 1896, 2100, 2700, 3500},
     fan_rpm : {0, 8000, 10996, 13500, 14004, 22000, 25000}]

InitSafety ==
    /\ InitEngine
    /\ mode = ModePropose
    /\ sf_pc = "input"
    /\ sf_current \in SafetyCurrents
    /\ sf_proposed \in SafetyProposals
    /\ sf_once = None
    /\ sf_twice = None
    /\ InitDiscovery
    /\ feed = <<>>
    /\ InitUnitsOff
    /\ InitErrors /\ InitRegistry /\ InitLockOff /\ InitRaceOff

\* safe = Safety.enforce(current, proposed)
SafetyEnforce ==
    /\ sf_pc = "input"
    /\ sf_once' = Some(Enforce(sf_current, sf_proposed))
    /\ sf_pc' = "once"
    /\ UNCHANGED <<sf_current, sf_proposed, sf_twice>>
    /\ UNCHANGED <<engineVars, discoveryVars, feed, unitVars, registryVars, lockVars, raceVars, errorVars>>

\* Safety.enforce(current, safe)
SafetyEnforceAgain ==
    /\ sf_pc = "once"
    /\ sf_twice' = Some(Enforce(sf_current, sf_once[1]))
    /\ sf_pc' = "twice"
    /\ UNCHANGED <<sf_current, sf_proposed, sf_once>>
    /\ UNCHANGED <<engineVars, discoveryVars, feed, unitVars, registryVars, lockVars, raceVars, errorVars>>

NextSafety == SafetyEnforce \/ SafetyEnforceAgain

SpecSafety == InitSafety /\ [][NextSafety]_vars

(***************************************************************************)
(* Discovery: start_discovery, list_discoveries, discover/raw and          *)
(* discover/results. Here clock is datetime.now() in seconds; it moves     *)
(* between operations, not with them.                                      *)
(***************************************************************************)
\* config.py: DISCOVERY_TIMEOUT_S, in seconds
discovery_timeout == 180

\* handle_message, line 85: discovery_history[-50:]
HistoryCap == 50

\* list_discoveries, line 274: discovery_history[-10:]
ListedHistory == 10

MaxDiscOps == 4

MaxRaw == 52

\* s[:n], which keeps the oldest entries
KeepHead(s, n) == IF Len(s) > n THEN SubSeq(s, 1, n) ELSE s

\* s[-n:]: the last n elements, all of s when it has no more than n
KeepTail(s, n) == IF Len(s) > n THEN SubSeq(s, Len(s) - n + 1, Len(s)) ELSE s

DiscoverStartTopic == <<"ctrl", "discover", "start">>

\* the subnets and actors of POST /discover/start and of the scheduler task
Subnets == {"10.0.0.0/24"}

Actors == {"operator", "scheduler"}

Device1 == [ip |-> "10.0.0.5", proto |-> "modbus"]

Device2 == [ip |-> "10.0.0.6", proto |-> "bacnet"]

\* the discover/results messages the bridge sends: one without a devices key
\* and without a duration, one with two devices
ResultsMessages ==
    {[ts |-> clock, subnet |-> "10.0.0.0/24", duration_s |-> None, devices |-> None],
     [ts |-> clock, subnet |-> "10.0.0.0/24", duration_s |-> Some(4),
      devices |-> Some(<<Device1, Device2>>)]}

\* the raw entries of the i-th discover/raw message
RawEntries(i) == [k \in 1..(i % 3) |-> [ip |-> k]]

\* the next discover/raw message on the bus: the bridge numbers its scans
RawMessages ==
    {[ts |-> raw_seen + 1, subnet |-> "10.0.0.0/24", duration_s |-> Some(4),
      raw |-> Some(RawEntries(raw_seen + 1))]}

\* a scan that starts without leaving idle
DiscoveryGoesIdle(subnet, stamp) ==
    [status |-> "idle", message |-> <<"Idle">>, started_at |-> Some(stamp),
     completed_at |-> None, error |-> None]

\* start_discovery, lines 250-255: the state a scan starts in
DiscoveryRunning(subnet, stamp) ==
    [status |-> "running", message |-> <<"Scanning ", subnet>>, started_at |-> Some(stamp),
     completed_at |-> None, error |-> None]

\* DecisionEngine.start_discovery
StartDiscovery(subnet, actor) ==
    /\ disc_ops < MaxDiscOps
    /\ LET now == clock
           payload == [subnet |-> subnet, ts |-> now, actor |-> actor]
       IN  /\ published' = Append(published, [topic |-> DiscoverStartTopic, payload |-> payload])
           /\ audits' = RecordAudit(audits, clock, actor, "discover_start", payload)
           /\ scans_total' = scans_total + 1
           /\ discovery_results' = <<>>
           /\ discovery_state' = DiscoveryRunning(subnet, now)
           /\ discovery_deadline' = Some(now + discovery_timeout)
    /\ disc_ops' = disc_ops + 1
    /\ listed' = None
    /\ UNCHANGED <<discovery_history, devices_found_total, durations, raw_seen>>
    /\ UNCHANGED <<mode, auto_enabled, buffers, dynamic_devices, rack_device_map,
                   latest_tiles, ingest_count, last_ingest_ts, telemetry, forecasts,
                   anomalies, actions, receipts, pc, frame, clock, status_updates,
                   approve_calls, created_auto>>
    /\ UNCHANGED <<safetyVars, feed, unitVars, registryVars, lockVars, raceVars, errorVars>>

\* a timeout that clears the deadline and leaves the scan running
DiscoveryStillRunning(state) == state

\* list_discoveries, lines 264-269: the state a scan that timed out is left in
DiscoveryTimedOut(state) ==
    [status |-> "error", message |-> <<"Edge bridge did not respond">>,
     started_at |-> state.started_at, completed_at |-> None,
     error |-> Some(<<"timeout>", discovery_timeout, "s">>)]

\* a timeout that already strikes at the deadline
TimedOutAtDeadline ==
    /\ discovery_state.status = "running"
    /\ discovery_deadline # None
    /\ clock >= discovery_deadline[1]

\* list_discoveries, lines 259-263: the condition of the timeout
TimedOut ==
    /\ discovery_state.status = "running"
    /\ discovery_deadline # None
    /\ clock > discovery_deadline[1]

\* DecisionEngine.list_discoveries
ListDiscoveries ==
    /\ disc_ops < MaxDiscOps
    /\ discovery_state' = IF TimedOut THEN DiscoveryTimedOut(discovery_state)
                          ELSE discovery_state
    /\ discovery_deadline' = IF TimedOut THEN None ELSE discovery_deadline
    /\ listed' = Some([devices |-> discovery_results,
                       state |-> discovery_state',
                       history |-> KeepTail(discovery_history, ListedHistory)])
    /\ disc_ops' = disc_ops + 1
    /\ UNCHANGED <<discovery_results, discovery_history, scans_total, devices_found_total,
                   durations, raw_seen>>
    /\ UNCHANGED <<engineVars, safetyVars, feed, unitVars, registryVars, lockVars, raceVars, errorVars>>

\* handle_message, lines 94-100: the state a discover/results message leaves
DiscoveryDone(state, count, stamp) ==
    [status |-> "done",
     message |-> IF count # 0 THEN <<"Found ", count, " device(s)">>
                 ELSE <<"No devices discovered">>,
     started_at |-> state.started_at, completed_at |-> Some(stamp), error |-> None]

\* a count of messages instead of devices
CountOne(devices) == 1

\* handle_message, line 89: count = len(self.discovery_results)
CountDevices(devices) == Len(devices)

\* handle_message, lines 86-102: a discover/results message
HandleResults(data) ==
    /\ disc_ops < MaxDiscOps
    /\ LET devices == Get(data.devices, <<>>)
           count == CountDevices(devices)
           duration == data.duration_s
       IN  /\ discovery_results' = devices
           /\ devices_found_total' = devices_found_total + count
           /\ durations' = IF duration # None /\ duration[1] # 0
                           THEN Append(durations, duration[1]) ELSE durations
           /\ discovery_state' = DiscoveryDone(discovery_state, count, clock)
    /\ audits' = RecordAudit(audits, clock, "system", "discover_results", data)
    /\ discovery_deadline' = None
    /\ disc_ops' = disc_ops + 1
    /\ listed' = None
    /\ UNCHANGED <<discovery_history, scans_total, raw_seen>>
    /\ UNCHANGED <<mode, auto_enabled, buffers, dynamic_devices, rack_device_map,
                   latest_tiles, ingest_count, last_ingest_ts, telemetry, forecasts,
                   anomalies, actions, receipts, published, pc, frame, clock,
                   status_updates, approve_calls, created_auto>>
    /\ UNCHANGED <<safetyVars, feed, unitVars, registryVars, lockVars, raceVars, errorVars>>

\* handle_message, lines 81-85: a discover/raw message
HandleRaw(data) ==
    /\ raw_seen < MaxRaw
    /\ LET raw_entries == Get(data.raw, <<>>)
       IN  discovery_history' =
              KeepTail(Append(discovery_history,
                              [ts |-> data.ts, raw_count |-> Len(raw_entries)]),
                       HistoryCap)
    /\ raw_seen' = raw_seen + 1
    /\ UNCHANGED <<discovery_results, discovery_state, discovery_deadline, scans_total,
                   devices_found_total, durations, disc_ops>>
    /\ listed' = None
    /\ UNCHANGED <<engineVars, safetyVars, feed, unitVars, registryVars, lockVars, raceVars, errorVars>>

\* time passes: to the deadline of a scan started now, or just past it
Tick(d) ==
    /\ disc_ops < MaxDiscOps
    /\ clock' = clock + d
    /\ disc_ops' = disc_ops + 1
    /\ UNCHANGED <<mode, auto_enabled, buffers, dynamic_devices, rack_device_map,
                   latest_tiles, ingest_count, last_ingest_ts, telemetry, forecasts,
                   anomalies, actions, receipts, audits, published, pc, frame,
                   status_updates, approve_calls, created_auto>>
    /\ UNCHANGED <<discovery_results, discovery_state, discovery_deadline, discovery_history,
                   scans_total, devices_found_total, durations, raw_seen>>
    /\ listed' = None
    /\ UNCHANGED <<safetyVars, feed, unitVars, registryVars, lockVars, raceVars, errorVars>>

InitDisc ==
    /\ InitEngine /\ mode = ModePropose /\ InitSafetyOff /\ InitDiscovery /\ feed = <<>>
    /\ InitUnitsOff /\ InitErrors /\ InitRegistry /\ InitLockOff /\ InitRaceOff

\* Every call and every handler runs to completion.
NextDiscovery ==
    \/ \E subnet \in Subnets, actor \in Actors : StartDiscovery(subnet, actor)
    \/ ListDiscoveries
    \/ \E data \in ResultsMessages : HandleResults(data)
    \/ \E data \in RawMessages : HandleRaw(data)
    \/ \E d \in {discovery_timeout, discovery_timeout + 1} : Tick(d)

SpecDiscovery == InitDisc /\ [][NextDiscovery]_vars

(***************************************************************************)
(* Telemetry fed in sequence: one rack's messages, handled in the order    *)
(* the bus delivers them                                                   *)
(***************************************************************************)
\* a TelemetryPoint of rack r1 with the given metrics
PointOf(temp_c, power_kw, hum_pct) ==
    [site |-> "dc1", rack |-> "r1", device_id |-> "",
     metrics |-> [temp_c |-> temp_c, hum_pct |-> hum_pct, power_kw |-> power_kw,
                  airflow_cfm |-> None]]

\* the points that carry these temperatures and nothing else
Temps(ts) == [i \in 1..Len(ts) |-> PointOf(Some(ts[i]), None, None)]

\* the sequences of messages fed to a fresh engine, temperatures in
\* deci-degrees: a slow rise that ends just under the limit; a steady rise
\* through the limit; a drop followed by points without a temperature; a rise
\* out of a cold start; a jump after six equal samples; a hot point with power
\* and humidity out of range
FeedScripts ==
    {Temps(<<260, 265, 265, 265, 265, 265, 265, 265, 265, 265, 269>>),
     Temps(<<240, 245, 250, 255, 260, 265, 270, 275>>),
     Temps(<<250, 0>>)
        \o <<PointOf(None, Some(60), Some(90)), PointOf(None, None, Some(90)),
             PointOf(None, None, None), PointOf(None, Some(55), Some(50))>>,
     Temps(<<200, 200, 200, 200, 240, 263, 263, 263, 263, 263, 265, 266, 267, 268, 269>>),
     Temps(<<250, 250, 250, 250, 250, 250, 259>>),
     <<PointOf(None, None, None), PointOf(Some(250), None, None),
       PointOf(Some(275), Some(60), Some(90))>>}

InitFeed ==
    /\ InitEngine
    /\ InitSafetyOff
    /\ InitDiscovery
    /\ feed \in FeedScripts
    /\ InitUnitsOff
    /\ InitErrors /\ InitRegistry /\ InitLockOff /\ InitRaceOff

\* handle_message, lines 68-70: the oldest queued telemetry message is handled
FeedTelemetry ==
    /\ pc = "idle"
    /\ feed # <<>>
    /\ LET p == Head(feed)
           ev == Evaluate(p)
       IN  TelemetryQuiet(p, ev) \/ TelemetryInsert(p, ev)
    /\ feed' = Tail(feed)
    /\ clock' = clock + 1
    /\ UNCHANGED <<mode, auto_enabled, rack_device_map, receipts, audits, published,
                   status_updates, approve_calls>>
    /\ UNCHANGED <<safetyVars, discoveryVars, unitVars, registryVars, lockVars, raceVars, errorVars>>

NextFeed == FeedTelemetry \/ TelemetryPublish \/ TelemetryUpdate

SpecFeed == InitFeed /\ [][NextFeed]_vars

(***************************************************************************)
(* MPCController.propose on inputs of its own                              *)
(***************************************************************************)
\* the lengths of the forecasts proposed from: shorter than, as long as and
\* longer than the lookahead of 5 steps
MpcForecastLengths == {1, 2, 6, 7}

\* forecast values in deci-degrees times 20: below, at, just above and well
\* above the target of 23 C
MpcForecastValues == {4000, 4600, 4601, 5000}

\* the forecasts: none, and every forecast that holds one value at one step and
\* another value at all other steps
MpcForecasts ==
    {<<>>} \cup
    {[i \in 1..n |-> IF i = k THEN v ELSE w] :
        n \in MpcForecastLengths, k \in 1..7, v \in MpcForecastValues, w \in {4000, 5000}}

\* current setpoints as the system emits them, multiples of 0.1 C and whole
\* rpm: absent, at and next to the limits, and the placeholder (18.0, 1200)
MpcCurrents ==
    [supply_temp_c : {None} \cup {Some(t) : t \in {1600, 1610, 1620, 1800, 2680, 2690, 2700}},
     fan_rpm : {None} \cup {Some(f) : f \in {8000, 8500, 9000, 12000, 20500, 21000, 22000}}]

InitMpc ==
    /\ InitEngine
    /\ mode = ModePropose
    /\ InitSafetyOff
    /\ InitDiscovery
    /\ feed = <<>>
    /\ InitErrors /\ InitRegistry /\ InitLockOff /\ InitRaceOff
    /\ pushed = [r \in Racks |-> <<>>]
    /\ mpc_pc = "input"
    /\ mpc_forecast \in MpcForecasts
    /\ mpc_current \in MpcCurrents
    /\ mpc_out = None

\* proposal = self.mpc.propose(forecast_temp, current)
MpcPropose ==
    /\ mpc_pc = "input"
    /\ mpc_out' = Some(Propose(mpc_forecast, mpc_current))
    /\ mpc_pc' = "proposed"
    /\ UNCHANGED <<mpc_forecast, mpc_current, pushed>>
    /\ UNCHANGED <<engineVars, safetyVars, discoveryVars, feed, errorVars, registryVars, lockVars, raceVars>>

\* safe = self.safety.enforce(current, proposal)
MpcEnforce ==
    /\ mpc_pc = "proposed"
    /\ mpc_out' = Some(Enforce(mpc_current, mpc_out[1]))
    /\ mpc_pc' = "enforced"
    /\ UNCHANGED <<mpc_forecast, mpc_current, pushed>>
    /\ UNCHANGED <<engineVars, safetyVars, discoveryVars, feed, errorVars, registryVars, lockVars, raceVars>>

NextMpc == MpcPropose \/ MpcEnforce

SpecMpc == InitMpc /\ [][NextMpc]_vars

(***************************************************************************)
(* FeatureStore: pushes into the windows of the racks and dense reads      *)
(***************************************************************************)
\* the number of values pushed in one run, more than a window holds
MaxPushes == 123

\* the first samples of the streams a rack can send, in deci-degrees: one that
\* rises by 0.1 C a sample, one that stays at 25 C, one that cycles
StreamStarts == {201, 250, 10}

\* the k-th sample of the stream that started with sample first
StreamSample(first, k) ==
    IF first = 201 THEN 200 + k
    ELSE IF first = 250 THEN 250
    ELSE (k % 7) * 10

\* the values a rack can send next, given what it has sent
NextSamples(sent) ==
    IF sent = <<>> THEN StreamStarts ELSE {StreamSample(sent[1], Len(sent) + 1)}

\* FeatureStore.get_window(rack, "temp_c")
GetWindow(rack) == AsArray(buffers[rack])

\* FeatureStore.snapshot(rack): a dense read per metric that has a buffer
Snapshot(rack) ==
    IF pushed[rack] = <<>> THEN <<>> ELSE [temp_c |-> AsArray(buffers[rack])]

InitWindow ==
    /\ InitEngine
    /\ mode = ModePropose
    /\ InitSafetyOff
    /\ InitDiscovery
    /\ feed = <<>>
    /\ InitUnitsOff
    /\ InitErrors /\ InitRegistry /\ InitLockOff /\ InitRaceOff

\* FeatureStore.push(rack, "temp_c", value)
Push(rack, value) ==
    /\ Len(pushed["r1"]) + Len(pushed["r2"]) < MaxPushes
    /\ buffers' = [buffers EXCEPT ![rack] = Add(@, value)]
    /\ pushed' = [pushed EXCEPT ![rack] = Append(@, value)]
    /\ UNCHANGED <<mpc_pc, mpc_forecast, mpc_current, mpc_out>>
    /\ UNCHANGED <<mode, auto_enabled, dynamic_devices, rack_device_map,
                   latest_tiles, ingest_count, last_ingest_ts, telemetry, forecasts,
                   anomalies, actions, receipts, audits, published, pc, frame, clock,
                   status_updates, approve_calls, created_auto>>
    /\ UNCHANGED <<safetyVars, discoveryVars, feed, errorVars, registryVars, lockVars, raceVars>>

NextWindow == \E rack \in Racks : \E value \in NextSamples(pushed[rack]) : Push(rack, value)

SpecWindow == InitWindow /\ [][NextWindow]_vars

(***************************************************************************)
(* Failures: messages the handler cannot process, a ledger insert that     *)
(* fails and a publish the bus does not deliver. An exception that leaves  *)
(* handle_message is recorded in raised.                                   *)
(***************************************************************************)
\* the number of operations of one run with failures
MaxErrOps == 3

\* the TelemetryPoints delivered in runs with failures
ErrorPoints ==
    {p \in TelemetryPoints : p.device_id = "" \/ p.metrics.temp_c = Some(0)}

\* the payloads POST /actions/approve is called with
ApprovePayloads == {[id |-> None], [id |-> Some(0)], [id |-> Some(1)], [id |-> Some(2)]}

\* the frame of every handler that does not touch the named tables
QuietLedger ==
    UNCHANGED <<mode, auto_enabled, rack_device_map, latest_tiles, ingest_count,
                last_ingest_ts, telemetry, forecasts, anomalies, actions, receipts,
                audits, published, pc, frame, status_updates, approve_calls,
                created_auto>>

\* _maybe_act, line 222: record_action raises (sqlite3.Error); what was written
\* before it stays, nothing after it runs
TelemetryInsertFails(p) ==
    /\ pc = "idle"
    /\ clock <= MaxOps
    /\ LET ev == Evaluate(p)
       IN  /\ ev.triggers # <<>>
           /\ Ingest(p, ev)
    /\ raised' = Append(raised, [op |-> "record_action", error |-> "sqlite3.Error"])
    /\ clock' = clock + 1
    /\ UNCHANGED <<mode, auto_enabled, rack_device_map, ingest_count, last_ingest_ts,
                   actions, receipts, audits, published, pc, frame, status_updates,
                   approve_calls, created_auto>>
    /\ UNCHANGED <<safetyVars, discoveryVars, feed, unitVars, registryVars, lockVars, raceVars, unpublished, http>>

\* _maybe_act, lines 236 and 240, Bus.publish: the client reports the failure
\* in the result of client.publish, which Bus.publish discards; the engine goes
\* on as after a delivered publish
TelemetryPublishLost ==
    /\ pc = "inserted"
    /\ frame' = [frame EXCEPT !.gate = AutoGate(auto_enabled, mode)]
    /\ unpublished' = unpublished \cup {frame.action_id}
    /\ pc' = "published"
    /\ UNCHANGED <<mode, auto_enabled, buffers, dynamic_devices, rack_device_map,
                   latest_tiles, ingest_count, last_ingest_ts, telemetry, forecasts,
                   anomalies, actions, receipts, audits, published, clock,
                   status_updates, approve_calls, created_auto>>
    /\ UNCHANGED <<safetyVars, discoveryVars, feed, unitVars, registryVars, lockVars, raceVars, raised, http>>

\* _maybe_act, lines 236 and 240: client.publish raises; the exception leaves
\* _maybe_act, _handle_telemetry and handle_message
TelemetryPublishRaises ==
    /\ pc = "inserted"
    /\ unpublished' = unpublished \cup {frame.action_id}
    /\ raised' = Append(raised, [op |-> "publish", error |-> "ValueError"])
    /\ pc' = "idle"
    /\ frame' = NoFrame
    /\ UNCHANGED <<mode, auto_enabled, buffers, dynamic_devices, rack_device_map,
                   latest_tiles, ingest_count, last_ingest_ts, telemetry, forecasts,
                   anomalies, actions, receipts, audits, published, clock,
                   status_updates, approve_calls, created_auto>>
    /\ UNCHANGED <<safetyVars, discoveryVars, feed, unitVars, registryVars, lockVars, raceVars, http>>

\* handle_message, lines 69, 72, 82 and 87: json.loads raises on a payload
\* that is not JSON, on a topic of any handled kind
HandleMalformed ==
    /\ pc = "idle"
    /\ clock <= MaxOps
    /\ raised' = Append(raised, [op |-> "json.loads", error |-> "JSONDecodeError"])
    /\ clock' = clock + 1
    /\ QuietLedger
    /\ UNCHANGED <<buffers, dynamic_devices>>
    /\ UNCHANGED <<safetyVars, discoveryVars, feed, unitVars, registryVars, lockVars, raceVars, unpublished, http>>

\* handle_message, lines 105-107: a topic no branch handles
HandleUnknownTopic ==
    /\ pc = "idle"
    /\ clock <= MaxOps
    /\ clock' = clock + 1
    /\ QuietLedger
    /\ UNCHANGED <<buffers, dynamic_devices>>
    /\ UNCHANGED <<safetyVars, discoveryVars, feed, unitVars, registryVars, lockVars, raceVars, errorVars>>

\* _handle_telemetry, lines 110-130, for a point without a site: the device
\* map and the window are written, then the insert into telemetry violates
\* site TEXT NOT NULL and raises
HandleTelemetryNoSite(p) ==
    /\ pc = "idle"
    /\ clock <= MaxOps
    /\ dynamic_devices' = DynamicAfter(p)
    /\ buffers' = BuffersAfter(p)
    /\ raised' = Append(raised, [op |-> "insert telemetry", error |-> "sqlite3.IntegrityError"])
    /\ clock' = clock + 1
    /\ QuietLedger
    /\ UNCHANGED <<safetyVars, discoveryVars, feed, unitVars, registryVars, lockVars, raceVars, unpublished, http>>

\* handle_message, lines 71-80, for a receipt without device_id or without ts:
\* the insert into receipts violates NOT NULL and raises
HandleReceiptIncomplete ==
    /\ pc = "idle"
    /\ clock <= MaxOps
    /\ raised' = Append(raised, [op |-> "insert receipts", error |-> "sqlite3.IntegrityError"])
    /\ clock' = clock + 1
    /\ QuietLedger
    /\ UNCHANGED <<buffers, dynamic_devices>>
    /\ UNCHANGED <<safetyVars, discoveryVars, feed, unitVars, registryVars, lockVars, raceVars, unpublished, http>>

\* Every handler runs to completion or to the exception that ends it.
NextErrors ==
    \/ \E p \in ErrorPoints : clock <= MaxErrOps /\ HandleTelemetry(p)
    \/ \E p \in ErrorPoints : clock <= MaxErrOps /\ TelemetryInsertFails(p)
    \/ TelemetryPublish
    \/ TelemetryPublishLost
    \/ TelemetryPublishRaises
    \/ TelemetryUpdate
    \/ clock <= MaxErrOps /\ HandleMalformed
    \/ clock <= MaxErrOps /\ HandleUnknownTopic
    \/ \E p \in ErrorPoints : clock <= MaxErrOps /\ HandleTelemetryNoSite(p)
    \/ clock <= MaxErrOps /\ HandleReceiptIncomplete
    \/ \E payload \in ApprovePayloads :
          pc = "idle" /\ clock <= MaxErrOps /\ ApiApproveAction(payload)

SpecErrors == Init /\ [][NextErrors]_vars

(***************************************************************************)
(* The device registry: config.append_device and approve_device             *)
(***************************************************************************)
\* the number of approve_device calls of one run
MaxApprovals == 3

\* the devices POST /discover/approve is called with; id "" is a device
\* without an id
ApprovedDevices ==
    [id : {"", "crac2", "ahu1"},
     host : {"10.0.0.5", "10.0.0.9"},
     proto : {"modbus", "bacnet"},
     port : {502},
     rack : {"r1", "r2"}]

\* append_device, line 55: f"{proto}_{host}"
GeneratedId(proto, host) ==
    CASE proto = "modbus" /\ host = "10.0.0.5" -> "modbus_10.0.0.5"
      [] proto = "modbus" /\ host = "10.0.0.9" -> "modbus_10.0.0.9"
      [] proto = "bacnet" /\ host = "10.0.0.5" -> "bacnet_10.0.0.5"
      [] proto = "bacnet" /\ host = "10.0.0.9" -> "bacnet_10.0.0.9"

\* append_device, lines 53-55: the entry with its id filled in
WithId(entry) ==
    IF entry.id = "" THEN [entry EXCEPT !.id = GeneratedId(entry.proto, entry.host)]
    ELSE entry

\* append_device, lines 60 and 65-69: the test an existing entry is replaced on
SameDevice(existing, entry) ==
    \/ existing.id = entry.id
    \/ /\ entry.host = existing.host
       /\ entry.proto = existing.proto
       /\ entry.port = existing.port

\* append_device, lines 59-76: the first matching entry is replaced, or the
\* entry is appended
Replaced(devices_list, entry) ==
    LET matching == {i \in 1..Len(devices_list) : SameDevice(devices_list[i], entry)}
    IN  IF matching = {} THEN Append(devices_list, entry)
        ELSE LET idx == CHOOSE i \in matching : \A j \in matching : i <= j
             IN  [devices_list EXCEPT ![idx] = entry]

\* append_device, lines 79-82: a dict keyed by id keeps the place of the first
\* item of each id and the value of the last
Deduped(devices_list) ==
    LET firsts == {i \in 1..Len(devices_list) :
                      \A j \in 1..(i - 1) : devices_list[j].id # devices_list[i].id}
        nth(k) == CHOOSE i \in firsts : Cardinality({j \in firsts : j <= i}) = k
        last(id) == CHOOSE i \in 1..Len(devices_list) :
                        /\ devices_list[i].id = id
                        /\ \A j \in (i + 1)..Len(devices_list) : devices_list[j].id # id
    IN  [k \in 1..Cardinality(firsts) |-> devices_list[last(devices_list[nth(k)].id)]]

\* append_device: the registry written and the action returned
AppendDevice(devices_list, device) ==
    LET entry == WithId(device)
    IN  [devices |-> Deduped(Replaced(devices_list, entry)),
         action |-> IF \E i \in 1..Len(devices_list) : SameDevice(devices_list[i], entry)
                    THEN "updated" ELSE "added"]

\* _reload_devices: rack_map[rack] = id for every entry with an id and a rack,
\* later entries over earlier ones; "" is no entry
RackMap(devices_list) ==
    [r \in Racks |->
        LET of_rack == {i \in 1..Len(devices_list) :
                           devices_list[i].rack = r /\ devices_list[i].id # ""}
        IN  IF of_rack = {} THEN ""
            ELSE devices_list[CHOOSE i \in of_rack : \A j \in of_rack : j <= i].id]

\* DecisionEngine.approve_device
ApproveDevice(device) ==
    /\ Len(device_calls) < MaxApprovals
    /\ LET result == AppendDevice(registry, device)
       IN  /\ registry' = result.devices
           /\ rack_device_map' = RackMap(result.devices)
           /\ approved_total' = approved_total + 1
           /\ audits' = RecordAudit(audits, clock, "system", "discover_approve",
                                    [device |-> device, action |-> result.action])
           /\ device_calls' = Append(device_calls,
                                     [device |-> device, action |-> result.action])
    /\ UNCHANGED <<mode, auto_enabled, buffers, dynamic_devices, latest_tiles,
                   ingest_count, last_ingest_ts, telemetry, forecasts, anomalies,
                   actions, receipts, published, pc, frame, clock, status_updates,
                   approve_calls, created_auto>>
    /\ UNCHANGED <<safetyVars, discoveryVars, feed, unitVars, errorVars, lockVars, raceVars>>

NextRegistry == \E device \in ApprovedDevices : ApproveDevice(device)

SpecRegistry == InitDisc /\ [][NextRegistry]_vars

(***************************************************************************)
(* The bus dispatcher and an HTTP worker side by side                      *)
(***************************************************************************)
\* Bus.start runs the client's loop, and with it handle_message, on a thread
\* of its own; the endpoints set_mode, set_auto and approve_action run on the
\* server's worker threads and take no lock of the engine, so an operator call
\* can fall between any two statements of a telemetry handler run.
NextRace ==
    \/ \E p \in TelemetryPoints : HandleTelemetry(p)
    \/ TelemetryPublish
    \/ TelemetryUpdate
    \/ OperatorCall

SpecRace == Init /\ [][NextRace]_vars

(***************************************************************************)
(* Discovery, statement by statement: start_discovery on an HTTP worker,   *)
(* the discover/results branch on the bus dispatcher, list_discoveries on  *)
(* the server's loop                                                       *)
(***************************************************************************)
\* the number of start_discovery calls and discover/results messages of a run
MaxRaceOps == 3

\* what the three operations leave alone in the engine
RaceEngineFrame ==
    UNCHANGED <<mode, auto_enabled, buffers, dynamic_devices, rack_device_map,
                latest_tiles, ingest_count, last_ingest_ts, telemetry, forecasts,
                anomalies, actions, receipts, pc, frame, status_updates,
                approve_calls, created_auto>>

RaceOtherFrame ==
    UNCHANGED <<safetyVars, feed, unitVars, registryVars, lockVars, errorVars,
                discovery_history, raw_seen>>

\* start_discovery, lines 244-248: now is read, the scan is announced on the
\* bus, audited and counted
StartAnnounce(subnet, actor) ==
    /\ start_frame.pc = "idle"
    /\ disc_ops < MaxRaceOps
    /\ LET now == clock
           payload == [subnet |-> subnet, ts |-> now, actor |-> actor]
       IN  /\ published' = Append(published, [topic |-> DiscoverStartTopic, payload |-> payload])
           /\ audits' = RecordAudit(audits, clock, actor, "discover_start", payload)
           /\ start_frame' = [pc |-> "announced", subnet |-> subnet, actor |-> actor,
                              now |-> now]
    /\ scans_total' = scans_total + 1
    /\ disc_ops' = disc_ops + 1
    /\ UNCHANGED <<discovery_results, discovery_state, discovery_deadline,
                   devices_found_total, durations, listed, clock, results_frame, list_pc>>
    /\ RaceEngineFrame /\ RaceOtherFrame

\* start_discovery, line 249: self.discovery_results = []
StartClearResults ==
    /\ start_frame.pc = "announced"
    /\ discovery_results' = <<>>
    /\ start_frame' = [start_frame EXCEPT !.pc = "cleared"]
    /\ UNCHANGED <<discovery_state, discovery_deadline, scans_total, devices_found_total,
                   durations, listed, disc_ops, audits, published, clock, results_frame,
                   list_pc>>
    /\ RaceEngineFrame /\ RaceOtherFrame

\* start_discovery, lines 250-255: self.discovery_state = {running ...}
StartSetState ==
    /\ start_frame.pc = "cleared"
    /\ discovery_state' = DiscoveryRunning(start_frame.subnet, start_frame.now)
    /\ start_frame' = [start_frame EXCEPT !.pc = "running"]
    /\ UNCHANGED <<discovery_results, discovery_deadline, scans_total, devices_found_total,
                   durations, listed, disc_ops, audits, published, clock, results_frame,
                   list_pc>>
    /\ RaceEngineFrame /\ RaceOtherFrame

\* start_discovery, line 256: self.discovery_deadline = now + timeout
StartSetDeadline ==
    /\ start_frame.pc = "running"
    /\ discovery_deadline' = Some(start_frame.now + discovery_timeout)
    /\ start_frame' = NoStart
    /\ UNCHANGED <<discovery_results, discovery_state, scans_total, devices_found_total,
                   durations, listed, disc_ops, audits, published, clock, results_frame,
                   list_pc>>
    /\ RaceEngineFrame /\ RaceOtherFrame

\* handle_message, lines 86-93: the devices are stored, counted and measured
ResultsStore(data) ==
    /\ results_frame.pc = "idle"
    /\ disc_ops < MaxRaceOps
    /\ LET devices == Get(data.devices, <<>>)
           count == CountDevices(devices)
           duration == data.duration_s
       IN  /\ discovery_results' = devices
           /\ devices_found_total' = devices_found_total + count
           /\ durations' = IF duration # None /\ duration[1] # 0
                           THEN Append(durations, duration[1]) ELSE durations
           /\ results_frame' = [pc |-> "stored", data |-> Some(data), count |-> count]
    /\ disc_ops' = disc_ops + 1
    /\ UNCHANGED <<discovery_state, discovery_deadline, scans_total, listed, audits,
                   published, clock, start_frame, list_pc>>
    /\ RaceEngineFrame /\ RaceOtherFrame

\* handle_message, lines 94-101: self.discovery_state = {done ...}, then the
\* audit entry
ResultsSetState ==
    /\ results_frame.pc = "stored"
    /\ discovery_state' = DiscoveryDone(discovery_state, results_frame.count, clock)
    /\ audits' = RecordAudit(audits, clock, "system", "discover_results",
                             results_frame.data[1])
    /\ results_frame' = [results_frame EXCEPT !.pc = "done"]
    /\ UNCHANGED <<discovery_results, discovery_deadline, scans_total, devices_found_total,
                   durations, listed, disc_ops, published, clock, start_frame, list_pc>>
    /\ RaceEngineFrame /\ RaceOtherFrame

\* handle_message, line 102: self.discovery_deadline = None
ResultsClearDeadline ==
    /\ results_frame.pc = "done"
    /\ discovery_deadline' = None
    /\ results_frame' = NoResults
    /\ UNCHANGED <<discovery_results, discovery_state, scans_total, devices_found_total,
                   durations, listed, disc_ops, audits, published, clock, start_frame,
                   list_pc>>
    /\ RaceEngineFrame /\ RaceOtherFrame

\* list_discoveries, lines 259-269: the timeout is tested and the state set
ListCheck ==
    /\ list_pc = "idle"
    /\ discovery_state' = IF TimedOut THEN DiscoveryTimedOut(discovery_state)
                          ELSE discovery_state
    /\ list_pc' = IF TimedOut THEN "timed_out" ELSE "returning"
    /\ listed' = None
    /\ UNCHANGED <<discovery_results, discovery_deadline, scans_total, devices_found_total,
                   durations, disc_ops, audits, published, clock, start_frame,
                   results_frame>>
    /\ RaceEngineFrame /\ RaceOtherFrame

\* list_discoveries, line 270: self.discovery_deadline = None
ListClearDeadline ==
    /\ list_pc = "timed_out"
    /\ discovery_deadline' = None
    /\ list_pc' = "returning"
    /\ UNCHANGED <<discovery_results, discovery_state, scans_total, devices_found_total,
                   durations, listed, disc_ops, audits, published, clock, start_frame,
                   results_frame>>
    /\ RaceEngineFrame /\ RaceOtherFrame

\* list_discoveries, lines 271-275: the answer is built
ListReturn ==
    /\ list_pc = "returning"
    /\ listed' = Some([devices |-> discovery_results,
                       state |-> discovery_state,
                       history |-> KeepTail(discovery_history, ListedHistory)])
    /\ list_pc' = "idle"
    /\ UNCHANGED <<discovery_results, discovery_state, discovery_deadline, scans_total,
                   devices_found_total, durations, disc_ops, audits, published, clock,
                   start_frame, results_frame>>
    /\ RaceEngineFrame /\ RaceOtherFrame

\* time passes while a deadline is pending: up to it, or past it
TimePasses(d) ==
    /\ discovery_deadline # None
    /\ clock <= discovery_deadline[1]
    /\ clock' = clock + d
    /\ UNCHANGED <<discovery_results, discovery_state, discovery_deadline, scans_total,
                   devices_found_total, durations, listed, disc_ops, audits, published,
                   start_frame, results_frame, list_pc>>
    /\ RaceEngineFrame /\ RaceOtherFrame

StartSteps == StartClearResults \/ StartSetState \/ StartSetDeadline

ResultsSteps == ResultsSetState \/ ResultsClearDeadline

ListSteps == ListCheck \/ ListClearDeadline \/ ListReturn

Clock == \E d \in {discovery_timeout, discovery_timeout + 1} : TimePasses(d)

NextDiscRace ==
    \/ \E subnet \in Subnets, actor \in Actors : StartAnnounce(subnet, actor)
    \/ StartSteps
    \/ \E data \in ResultsMessages : ResultsStore(data)
    \/ ResultsSteps
    \/ ListSteps
    \/ Clock

SpecDiscRace == InitDisc /\ [][NextDiscRace]_vars

\* Every thread that has begun an operation is scheduled until the operation
\* returns; the wall clock advances; the socket loop of api.py calls
\* list_discoveries once a second for as long as a client is connected.
\* Nothing obliges an operator to start a scan or the bridge to answer one.
FairDiscRace ==
    /\ SpecDiscRace
    /\ WF_vars(StartSteps)
    /\ WF_vars(ResultsSteps)
    /\ WF_vars(ListSteps)
    /\ WF_vars(Clock)

(***************************************************************************)
(* The DB lock: the ledger operations called from two threads              *)
(***************************************************************************)
DbOperations ==
    {"insert", "record_action", "record_receipt", "update_action_status",
     "update_action_cmd", "get", "latest", "telemetry_history", "latest_point"}

\* a record_receipt that takes the lock itself before it calls insert
PlanNested(op) ==
    IF op = "record_receipt"
    THEN <<"prepare", "acquire", "acquire", "statement", "release", "release">>
    ELSE <<"acquire", "statement", "release">>

\* what an operation does with the lock, in order: every operation is one
\* with-block around its statement; record_action and record_receipt prepare
\* their payload first, and record_receipt then calls insert
Plan(op) ==
    IF op \in {"record_action", "record_receipt"}
    THEN <<"prepare", "acquire", "statement", "release">>
    ELSE <<"acquire", "statement", "release">>

\* the step a thread is at, "" when it is in no operation
At(t) == IF db_threads[t].todo = <<>> THEN "" ELSE Head(db_threads[t].todo)

\* the thread moves on; the operation returns, or raises, after its last step
Advance(t, failed) ==
    LET call == db_threads[t]
    IN  db_threads' = [db_threads EXCEPT ![t] =
                          IF Len(call.todo) = 1 THEN NoDbCall
                          ELSE [op |-> call.op, todo |-> Tail(call.todo),
                                failed |-> failed]]

LockFrame == UNCHANGED <<engineVars, safetyVars, discoveryVars, feed, unitVars, errorVars,
                         registryVars, raceVars>>

\* a thread calls a ledger operation
DbCall(t, op) ==
    /\ db_threads[t].op = ""
    /\ db_threads' = [db_threads EXCEPT ![t] = [op |-> op, todo |-> Plan(op), failed |-> FALSE]]
    /\ UNCHANGED db_lock
    /\ LockFrame

\* payload = action.copy() and the json.dumps of its dicts
DbPrepare(t) ==
    /\ At(t) = "prepare"
    /\ Advance(t, FALSE)
    /\ UNCHANGED db_lock
    /\ LockFrame

\* with self.lock: threading.Lock.acquire, which waits while the lock is held,
\* by whatever thread
DbAcquire(t) ==
    /\ At(t) = "acquire"
    /\ db_lock = None
    /\ db_lock' = Some(t)
    /\ Advance(t, FALSE)
    /\ LockFrame

\* the statement of the operation: it completes, or sqlite raises
DbStatement(t, failed) ==
    /\ At(t) = "statement"
    /\ Advance(t, failed)
    /\ UNCHANGED db_lock
    /\ LockFrame

\* the end of the with-block, reached by a return and by an exception alike
DbRelease(t) ==
    /\ At(t) = "release"
    /\ db_lock' = None
    /\ Advance(t, db_threads[t].failed)
    /\ LockFrame

NextLock ==
    \/ \E t \in Threads, op \in DbOperations : DbCall(t, op)
    \/ \E t \in Threads : DbPrepare(t)
    \/ \E t \in Threads : DbAcquire(t)
    \/ \E t \in Threads, failed \in BOOLEAN : DbStatement(t, failed)
    \/ \E t \in Threads : DbRelease(t)

SpecLock == InitDisc /\ [][NextLock]_vars

(***************************************************************************)
(* Properties                                                              *)
(***************************************************************************)
InsideLimits(limits, v) == limits.min <= v /\ v <= limits.max

\* every Action row the engine has persisted
ActionIds == 1..Len(actions)

\* the messages published on a topic of the given kind that carry Action i's command
PublishedFor(i, onSet) ==
    {j \in 1..Len(published) :
        /\ published[j].payload = StoredCommand(actions[i])
        /\ IF onSet THEN IsSetTopic(published[j].topic)
           ELSE published[j].topic = ProposalsTopic}

\* the approve_action calls made so far with Action i's id
ApproveCallsFor(i) ==
    {j \in 1..Len(approve_calls) : approve_calls[j].id = actions[i].id}

\* C8: every persisted Action row has supply_temp_c within [16, 27] and fan_rpm
\* within [800, 2200], and is within 1.0 C and 200 rpm of the current setpoints
\* it was computed from, 18.0 C and 1200 rpm.
C8_PersistedSetpointsInEnvelope ==
    \A i \in ActionIds :
        LET set == StoredCommand(actions[i]).set
        IN  /\ 1600 <= set.supply_temp_c /\ set.supply_temp_c <= 2700
            /\ 8000 <= set.fan_rpm /\ set.fan_rpm <= 22000
            /\ Abs(set.supply_temp_c - 1800) <= 100
            /\ Abs(set.fan_rpm - 12000) <= 2000

\* both MPC branches have produced a persisted row
C8_Witness ==
    /\ \E i \in ActionIds : StoredCommand(actions[i]).set = [supply_temp_c |-> 1770, fan_rpm |-> 13500]
    /\ \E i \in ActionIds : StoredCommand(actions[i]).set = [supply_temp_c |-> 1820, fan_rpm |-> 11000]

SafetyInside(out) ==
    /\ InsideLimits(Limits.temp_c, out.supply_temp_c)
    /\ InsideLimits(Limits.fan_rpm, out.fan_rpm)

SafetyWithinDelta(limits, cur, v) ==
    cur # None => Abs(v - cur[1]) <= limits.max_delta_per_min

\* a current value that is absent, or no farther than max_delta_per_min from
\* [min, max]: the values for which some result is both inside the limits and
\* within the rate limit
Reachable(limits, cur) ==
    cur # None =>
        /\ limits.min - limits.max_delta_per_min <= cur[1]
        /\ cur[1] <= limits.max + limits.max_delta_per_min

\* what rounding the result to the grid (tenths of a degree, whole rpm) can add
\* to its distance from a current value: nothing when that value is on the grid
RoundingSlack(cur, off_grid) ==
    IF cur = None \/ cur[1] % 10 = 0 THEN 0 ELSE off_grid

SafetyWithinDeltaUpTo(limits, cur, v, slack) ==
    cur # None => Abs(v - cur[1]) <= limits.max_delta_per_min + slack

C10_EnforceIdempotent ==
    sf_pc = "twice" => sf_twice = sf_once

\* enforce has been applied twice where the first pass clamped, rate-limited
\* and rounded
C10_Witness ==
    /\ sf_pc = "twice"
    /\ sf_current = [supply_temp_c |-> Some(1806), fan_rpm |-> Some(12005)]
    /\ sf_proposed = [supply_temp_c |-> 3500, fan_rpm |-> 0]
    /\ sf_once[1].supply_temp_c = 1910
    /\ sf_once[1].fan_rpm = 10000

\* the edges of the status DAG (I3)
Edges ==
    {<<"queued", "sent">>, <<"queued", "pending_manual">>, <<"pending_manual", "sent">>,
     <<"sent", "applied">>, <<"sent", "rejected">>}

\* this step ran one UPDATE actions SET status
StatusUpdateStep == Len(status_updates') = Len(status_updates) + 1

\* this step is one approve_action call
ApproveStep == Len(approve_calls') = Len(approve_calls) + 1

\* this step handled one receipt message
ReceiptStep == Len(receipts') = Len(receipts) + 1

\* C1: over any sequence of telemetry handling, approve_action calls and
\* receipt messages, every change of an Action's status follows an edge of the
\* DAG, and a status update that asks for any other transition leaves the
\* stored status as it was.
C1_StatusFollowsDag ==
    [][/\ \A i \in ActionIds :
             actions'[i].status # actions[i].status
                => <<actions[i].status, actions'[i].status>> \in Edges
       /\ StatusUpdateStep =>
             LET req == status_updates'[Len(status_updates')]
                 before == GetAction(actions, req.id)[1].status
             IN  <<before, req.status>> \notin Edges
                    => GetAction(actions', req.id)[1].status = before]_vars

\* one Action has gone queued -> pending_manual -> sent and was then asked to go
\* sent -> sent by a second approval; another went queued -> sent
C1_Witness ==
    /\ \E i \in ActionIds :
          /\ ~created_auto[i]
          /\ actions[i].status = "sent"
          /\ Cardinality(ApproveCallsFor(i)) >= 2
    /\ Len(status_updates) >= 3

\* C2 as claimed: an Action created while the auto gate (auto_enabled and mode
\* starting with "auto") does not hold is never stored with status queued.
C2_ProposedNeverStoredQueued ==
    \A i \in ActionIds : ~created_auto[i] => actions[i].status # "queued"

\* C3: for an Action created while the auto gate does not hold, once its
\* handler has completed exactly one message for it is on ctrl/proposals, and
\* as long as approve_action has not been called with its id, no message for it
\* is on ctrl/<device_id>/set and its status is not sent.
C3_ProposalWaitsForApproval ==
    \A i \in ActionIds :
        ~created_auto[i] =>
            /\ (pc = "idle" \/ frame.action_id # actions[i].id)
                  => Cardinality(PublishedFor(i, FALSE)) = 1
            /\ ApproveCallsFor(i) = {}
                  => /\ PublishedFor(i, TRUE) = {}
                     /\ actions[i].status # "sent"

\* a proposed Action whose handler has completed waits, unapproved, while a
\* second one has been approved and sent
C3_Witness ==
    /\ pc = "idle"
    /\ \E i \in ActionIds :
          /\ ~created_auto[i]
          /\ ApproveCallsFor(i) = {}
          /\ actions[i].status = "pending_manual"
    /\ \E i \in ActionIds :
          /\ ~created_auto[i]
          /\ ApproveCallsFor(i) # {}
          /\ actions[i].status = "sent"
          /\ Cardinality(PublishedFor(i, TRUE)) = 1

\* C4: when a trigger fires while the auto gate holds, telemetry handling
\* first inserts the Action with status queued (nothing published yet), then
\* publishes its payload once on ctrl/<device_id>/set and nothing on
\* ctrl/proposals, then sets the status to sent.
C4_AutoInsertPublishSend ==
    [][/\ (pc = "idle" /\ pc' = "inserted" /\ created_auto'[Len(actions')])
             => /\ Len(actions') = Len(actions) + 1
                /\ actions'[Len(actions')].status = "queued"
                /\ published' = published
       /\ (pc = "inserted" /\ pc' = "published" /\ created_auto[frame.action_id])
             => /\ actions' = actions
                /\ actions[frame.action_id].status = "queued"
                /\ published' =
                      Append(published,
                             [topic |-> <<"ctrl", actions[frame.action_id].device_id, "set">>,
                              payload |-> StoredCommand(actions[frame.action_id])])
       /\ (pc = "published" /\ pc' = "idle" /\ created_auto[frame.action_id])
             => /\ published' = published
                /\ actions[frame.action_id].status = "queued"
                /\ actions'[frame.action_id].status = "sent"
                /\ Cardinality(PublishedFor(frame.action_id, TRUE)) = 1
                /\ PublishedFor(frame.action_id, FALSE) = {}]_vars

\* an Action created under the auto gate has been inserted, published and sent
\* by the telemetry handler alone
C4_Witness ==
    /\ pc = "idle"
    /\ \E i \in ActionIds :
          /\ created_auto[i]
          /\ actions[i].status = "sent"
          /\ ApproveCallsFor(i) = {}
          /\ Cardinality(PublishedFor(i, TRUE)) = 1

\* C5: approve_action(id) on an existing Action whose status is pending_manual
\* publishes the stored command exactly once on ctrl/<device_id>/set, with
\* device_id taken from the stored command, sets that Action's status to sent,
\* returns true, and changes no other Action row.
C5_ApprovePendingPublishesAndSends ==
    [][ApproveStep =>
          LET call == approve_calls'[Len(approve_calls')]
              found == GetAction(actions, call.id)
          IN  (found # None /\ found[1].status = "pending_manual")
                 => /\ call.ok
                    /\ published' =
                          Append(published,
                                 [topic |-> <<"ctrl", StoredCommand(found[1]).device_id, "set">>,
                                  payload |-> StoredCommand(found[1])])
                    /\ Len(actions') = Len(actions)
                    /\ \A i \in ActionIds :
                          actions'[i] =
                             IF actions[i].id = call.id
                             THEN [actions[i] EXCEPT !.status = "sent"]
                             ELSE actions[i]]_vars

\* an approval has sent one pending Action while another stays pending
C5_Witness ==
    /\ approve_calls # <<>>
    /\ approve_calls[Len(approve_calls)].ok
    /\ \E i, j \in ActionIds :
          /\ actions[i].id = approve_calls[Len(approve_calls)].id
          /\ ~created_auto[i]
          /\ actions[i].status = "sent"
          /\ Cardinality(ApproveCallsFor(i)) = 1
          /\ actions[j].status = "pending_manual"

\* C6 as claimed: approve_action on an Action whose status is already sent (a
\* second approval of the same id among them) succeeds, publishes nothing and
\* leaves the ledger as it was.
C6_ApproveSentIsNoOp ==
    [][ApproveStep =>
          LET call == approve_calls'[Len(approve_calls')]
              found == GetAction(actions, call.id)
          IN  (found # None /\ found[1].status = "sent")
                 => /\ call.ok
                    /\ published' = published
                    /\ actions' = actions]_vars

\* C7 as claimed: every receipt message appends one row to receipts, every
\* Action whose (device_id, ts) equals the receipt's becomes applied, and no
\* other Action's status changes.
C7_ReceiptMarksMatchApplied ==
    [][ReceiptStep =>
          LET row == receipts'[Len(receipts')]
          IN  /\ receipts' = Append(receipts, row)
              /\ Len(actions') = Len(actions)
              /\ \A i \in ActionIds :
                    IF i \in Matching(actions, row)
                    THEN actions'[i].status = "applied"
                    ELSE actions'[i].status = actions[i].status]_vars

(***************************************************************************)
(* Properties of the discovery state machine                               *)
(***************************************************************************)
\* this step is one start_discovery call: nothing else publishes on
\* ctrl/discover/start or counts a scan
StartStep == scans_total' # scans_total \/ Len(published') # Len(published)

\* this step is one list_discoveries call
ListStep == listed' # None

\* this step handled one discover/results message, which the audit row holds
ResultsStep ==
    /\ Len(audits') = Len(audits) + 1
    /\ audits'[Len(audits')].action = "discover_results"

\* this step handled one discover/raw message
RawStep == raw_seen' = raw_seen + 1

\* C11: in every state reached by start_discovery, list_discoveries,
\* discover/raw and discover/results handling, each run to completion, the
\* discovery deadline is non-null if and only if the status is running.
C11_DeadlineIffRunning ==
    discovery_deadline # None <=> discovery_state.status = "running"

\* a second scan was started after the first one's deadline: it runs with a
\* deadline of its own
C11_Witness ==
    /\ discovery_state.status = "running"
    /\ discovery_deadline = Some(clock + discovery_timeout)
    /\ scans_total = 2
    /\ clock > 1 + discovery_timeout

\* the edges of the discovery state machine
DiscoveryEdges ==
    {<<"idle", "running">>, <<"running", "done">>, <<"running", "error">>,
     <<"done", "running">>, <<"error", "running">>}

\* C12 as claimed: the discovery status changes only along idle->running,
\* running->done, running->error and done|error->running, so a
\* discover/results message received while the status is idle, done or error
\* does not change the status.
C12_StatusFollowsDiscoveryEdges ==
    [][discovery_state'.status # discovery_state.status
          => <<discovery_state.status, discovery_state'.status>> \in DiscoveryEdges]_vars

\* C13: list_discoveries called while the status is running and now > deadline
\* leaves and returns a state with status error, message "Edge bridge did not
\* respond" and error "timeout>Ts", clears the deadline and returns an empty
\* device list; called while now <= deadline, or while the status is not
\* running, it changes no engine state.
C13_ListTimesOutLazily ==
    [][ListStep =>
          IF /\ discovery_state.status = "running"
             /\ discovery_deadline # None
             /\ clock > discovery_deadline[1]
          THEN /\ discovery_state'.status = "error"
               /\ discovery_state'.message = <<"Edge bridge did not respond">>
               /\ discovery_state'.error = Some(<<"timeout>", discovery_timeout, "s">>)
               /\ discovery_deadline' = None
               /\ listed'[1].state = discovery_state'
               /\ listed'[1].devices = <<>>
          ELSE /\ listed'[1].state = discovery_state
               /\ UNCHANGED <<discovery_results, discovery_state, discovery_deadline,
                              discovery_history, scans_total, devices_found_total,
                              durations, raw_seen>>
               /\ UNCHANGED <<engineVars, safetyVars, feed>>]_vars

\* a listing has just returned the error of a scan that timed out
C13_Witness ==
    /\ listed # None
    /\ listed[1].state.status = "error"
    /\ listed[1].devices = <<>>
    /\ discovery_deadline = None
    /\ scans_total >= 1

\* C14: start_discovery(subnet, actor), called in any status, publishes exactly
\* one {ts, subnet, actor} message on ctrl/discover/start, appends one audit
\* entry with that actor, increments discover_scans_total by one, empties the
\* results, and leaves the status running with deadline = now +
\* discovery_timeout_s; the discovery history is left unchanged.
C14_StartDiscoveryEffects ==
    [][StartStep =>
          \E subnet \in Subnets, actor \in Actors :
              /\ published' =
                    Append(published,
                           [topic |-> <<"ctrl", "discover", "start">>,
                            payload |-> [ts |-> clock, subnet |-> subnet, actor |-> actor]])
              /\ Len(audits') = Len(audits) + 1
              /\ SubSeq(audits', 1, Len(audits)) = audits
              /\ audits'[Len(audits')].actor = actor
              /\ scans_total' = scans_total + 1
              /\ discovery_results' = <<>>
              /\ discovery_state'.status = "running"
              /\ discovery_deadline' = Some(clock + discovery_timeout)
              /\ discovery_history' = discovery_history]_vars

\* a scan was started over the results of a finished one, with raw messages in
\* the history
C14_Witness ==
    /\ scans_total = 2
    /\ devices_found_total = 2
    /\ discovery_results = <<>>
    /\ discovery_state.status = "running"
    /\ discovery_history # <<>>

\* C15: handling a discover/results message during a running discovery stores
\* the message's devices list as the results, sets the status to done with
\* error null, clears the deadline, and increments
\* discover_devices_found_total by the number of devices in the message.
C15_ResultsFinishRunningScan ==
    [][(ResultsStep /\ discovery_state.status = "running") =>
          LET data == audits'[Len(audits')].payload
              devices == IF data.devices = None THEN <<>> ELSE data.devices[1]
          IN  /\ discovery_results' = devices
              /\ discovery_state'.status = "done"
              /\ discovery_state'.error = None
              /\ discovery_deadline' = None
              /\ devices_found_total' = devices_found_total + Len(devices)]_vars

\* a running scan has been finished by a message with two devices
C15_Witness ==
    /\ discovery_state.status = "done"
    /\ discovery_state.started_at # None
    /\ discovery_results = <<Device1, Device2>>
    /\ devices_found_total = 2
    /\ scans_total = 1

\* C16 as claimed: each discover/results message handled appends exactly one
\* {ts, raw_count} entry to the discovery history (which keeps its last 50).
C16_ResultsAppendHistory ==
    [][ResultsStep =>
          LET data == audits'[Len(audits')].payload
          IN  \E raw_count \in 0..2 :
                 discovery_history' =
                    KeepTail(Append(discovery_history,
                                    [ts |-> data.ts, raw_count |-> raw_count]),
                             HistoryCap)]_vars

\* the entry the i-th discover/raw message is recorded as
RawEntry(i) == [ts |-> i, raw_count |-> i % 3]

\* C17: the discovery history holds at most 50 entries, and they are the most
\* recently appended ones in arrival order.
C17_HistoryKeepsLast50 ==
    /\ Len(discovery_history) = Min(raw_seen, 50)
    /\ \A k \in 1..Len(discovery_history) :
          discovery_history[k] = RawEntry(raw_seen - Len(discovery_history) + k)

\* more than 50 discover/raw messages have arrived and the oldest are gone
C17_Witness ==
    /\ raw_seen = 52
    /\ Len(discovery_history) = 50
    /\ discovery_history[1].ts = 3
    /\ discovery_history[50].ts = 52

(***************************************************************************)
(* Properties of trigger evaluation                                        *)
(***************************************************************************)
\* the reasons in the order of priority the trigger table gives them, each with
\* the name its trigger is recorded under
ReasonPriority ==
    <<[reason |-> "temperature_limit", trigger |-> "temp_limit"],
      [reason |-> "temperature_trend", trigger |-> "temp_trend"],
      [reason |-> "power_spike", trigger |-> "power_spike"],
      [reason |-> "humidity_out_of_range", trigger |-> "humidity"],
      [reason |-> "forecast_risk_high", trigger |-> "forecast"],
      [reason |-> "anomaly", trigger |-> "vae"]>>

\* the reason of the first entry of the priority order whose trigger is in the list
FirstByPriority(triggers) ==
    LET firing == {k \in 1..Len(ReasonPriority) : Has(triggers, ReasonPriority[k].trigger)}
    IN  ReasonPriority[CHOOSE k \in firing : \A j \in firing : k <= j].reason

\* C18 as claimed: the reason of every emitted Action is the firing trigger of
\* highest priority in the order temperature_limit, temperature_trend,
\* power_spike, humidity_out_of_range, forecast_risk_high, anomaly.
C18_ReasonIsHighestPriority ==
    \A i \in ActionIds :
        LET cmd == StoredCommand(actions[i])
        IN  cmd.explain.triggers # <<>> => cmd.reason = FirstByPriority(cmd.explain.triggers)

\* this step handled one telemetry message up to its return or its insert
TelemetryStep == Len(telemetry') = Len(telemetry) + 1

\* the triggers that fire for the telemetry row a step has just written, read
\* off the rack's window as the step left it
FiredFor(row, bufs) ==
    LET window == AsArray(bufs[row.rack])
    IN  Triggers(window, Predict(window).preds, Score(window).alarm,
                 [temp_c |-> row.temp_c, hum_pct |-> row.hum_pct,
                  power_kw |-> row.power_kw, airflow_cfm |-> row.airflow_cfm])

\* C19: handling a TelemetryPoint inserts an Action row and publishes a command
\* or proposal if and only if at least one of the six triggers fired for that
\* point; every persisted Action records a non-empty trigger list in explain.
C19_ActionIffTriggerFired ==
    [][/\ TelemetryStep =>
             LET fired == FiredFor(telemetry'[Len(telemetry')], buffers')
             IN  IF fired # <<>>
                 THEN /\ Len(actions') = Len(actions) + 1
                      /\ StoredCommand(actions'[Len(actions')]).explain.triggers = fired
                      /\ pc' = "inserted"
                 ELSE /\ actions' = actions
                      /\ published' = published
                      /\ pc' = "idle"
       /\ (pc = "inserted" /\ pc' = "published") =>
             /\ published' = Append(published, published'[Len(published')])
             /\ published'[Len(published')].payload = StoredCommand(actions[frame.action_id])
       /\ pc' = "idle" => published' = published
       /\ \A i \in 1..Len(actions') :
             StoredCommand(actions'[i]).explain.triggers # <<>>]_vars

\* points have been handled without an Action and with one, published
C19_Witness ==
    /\ pc = "idle"
    /\ Len(telemetry) > Len(actions)
    /\ Len(actions) >= 2
    /\ Len(published) = Len(actions)

\* C20 as claimed: for a TelemetryPoint whose temp_c is null nothing is pushed
\* into the rack's window, no forecasts row and no anomalies row is persisted,
\* tiles[rack] is updated with the point's ts and metrics, and no Action is
\* emitted.
C20_NullTemperatureOnlyUpdatesTile ==
    [][(TelemetryStep /\ telemetry'[Len(telemetry')].temp_c = None) =>
          LET row == telemetry'[Len(telemetry')]
          IN  /\ buffers' = buffers
              /\ forecasts' = forecasts
              /\ anomalies' = anomalies
              /\ latest_tiles'[row.rack] # None
              /\ latest_tiles'[row.rack][1].ts = row.ts
              /\ latest_tiles'[row.rack][1].metrics.hum_pct = row.hum_pct
              /\ latest_tiles'[row.rack][1].metrics.power_kw = row.power_kw
              /\ actions' = actions]_vars

(***************************************************************************)
(* Properties of whole telemetry sequences                                 *)
(***************************************************************************)
\* the temperatures of the telemetry rows written so far, oldest first
TemperaturesSeen == [i \in 1..Len(telemetry) |-> telemetry[i].temp_c]

\* temperatures rising from 24 to 27.5 C in steps of half a degree
RisingTemps == <<240, 245, 250, 255, 260, 265, 270, 275>>

\* the rising sequence has been handled to its end, and nothing else
RisingSequenceHandled ==
    /\ pc = "idle"
    /\ feed = <<>>
    /\ TemperaturesSeen = [i \in 1..Len(RisingTemps) |-> Some(RisingTemps[i])]

\* C21 as claimed: a sequence of points of one rack whose temp_c rises from 24
\* to 27.5, with the limit at 27 and no known actuator state, results in
\* exactly one Action for the whole sequence, with reason temperature_limit,
\* supply_temp_c <= 17.7, fan_rpm = 1350 and safety summary "limits, rate
\* limits applied".
C21_RisingSequenceGivesOneAction ==
    RisingSequenceHandled =>
        /\ Len(actions) = 1
        /\ actions[1].reason = "temperature_limit"
        /\ StoredCommand(actions[1]).set.supply_temp_c <= 1770
        /\ StoredCommand(actions[1]).set.fan_rpm = 13500
        /\ actions[1].safety_summary = "limits, rate limits applied"

(***************************************************************************)
(* Properties of MPCController.propose                                     *)
(***************************************************************************)
\* the forecast sample propose looks at, forecast[min(5, len-1)] counted from
\* 0, in deci-degrees times 20; None for an empty forecast
LookaheadSample(forecast) ==
    IF forecast = <<>> THEN None
    ELSE IF Len(forecast) >= 6 THEN Some(forecast[6])
    ELSE Some(forecast[Len(forecast)])

\* the sample is above the target of 23 C
AboveTarget(forecast) ==
    LookaheadSample(forecast) # None /\ LookaheadSample(forecast)[1] > 20 * 230

\* C22: propose returns fan_rpm = clamp(current fan + 150) and supply_temp_c =
\* clamp(current supply - 0.3) when forecast[min(5, len-1)] is above 23, and
\* clamp(current fan - 100) and clamp(current supply + 0.2) otherwise (exactly
\* 23 and an empty forecast count as otherwise), clamped to the absolute
\* limits; with the placeholder current (18.0, 1200) the setpoints that leave
\* Safety.enforce are (17.7, 1350) or (18.2, 1100).
C22_ProposeStepsByLookahead ==
    [][/\ (mpc_pc = "input" /\ mpc_pc' = "proposed") =>
             LET fan == Get(mpc_current.fan_rpm, 12000)
                 supply == Get(mpc_current.supply_temp_c, 1800)
                 out == mpc_out'[1]
             IN  IF AboveTarget(mpc_forecast)
                 THEN /\ out.fan_rpm = Max(8000, Min(22000, fan + 1500))
                      /\ out.supply_temp_c = Max(1600, Min(2700, supply - 30))
                 ELSE /\ out.fan_rpm = Max(8000, Min(22000, fan - 1000))
                      /\ out.supply_temp_c = Max(1600, Min(2700, supply + 20))
       /\ (mpc_pc = "proposed" /\ mpc_pc' = "enforced" /\ mpc_current = CurrentSetpoints) =>
             LET safe == mpc_out'[1]
             IN  \/ safe.supply_temp_c = 1770 /\ safe.fan_rpm = 13500
                 \/ safe.supply_temp_c = 1820 /\ safe.fan_rpm = 11000]_vars

\* a forecast whose lookahead sample is exactly 23 C, with hotter samples
\* around it, has been proposed from at the upper fan limit and enforced
C22_Witness ==
    /\ mpc_pc = "enforced"
    /\ Len(mpc_forecast) = 7
    /\ mpc_forecast[6] = 4600
    /\ mpc_forecast[5] = 5000
    /\ mpc_current.fan_rpm = Some(22000)
    /\ mpc_current.supply_temp_c = Some(1600)
    /\ mpc_out[1].fan_rpm = 21000
    /\ mpc_out[1].supply_temp_c = 1620

(***************************************************************************)
(* Properties of the feature store                                         *)
(***************************************************************************)
\* C23: after any sequence of pushes (including none) window(rack, metric)
\* returns exactly N values and every sequence in snapshot(rack) has length N;
\* once more than N values have been pushed, the read is the last N pushed
\* values in push order.
C23_WindowReadsHaveLengthN ==
    \A rack \in Racks :
        /\ Len(GetWindow(rack)) = WindowSize
        /\ \A metric \in DOMAIN Snapshot(rack) : Len(Snapshot(rack)[metric]) = WindowSize
        /\ Len(pushed[rack]) > WindowSize =>
               GetWindow(rack) = SubSeq(pushed[rack], Len(pushed[rack]) - WindowSize + 1,
                                        Len(pushed[rack]))

\* one rack's window has overflowed with distinct samples while the other
\* rack's is partly filled
C23_Witness ==
    /\ Len(pushed["r1"]) = WindowSize + 2
    /\ pushed["r1"][1] = 201
    /\ Len(pushed["r2"]) = 1
    /\ GetWindow("r1")[1] = 203
    /\ GetWindow("r1")[WindowSize] = 322
    /\ GetWindow("r2")[1] = pushed["r2"][1]

\* C24 as claimed: when a window holds k samples with 0 < k < N, its dense read
\* is N-k copies of the earliest (first-pushed) sample followed by the k
\* samples in push order.
C24_PadsWithEarliestSample ==
    \A rack \in Racks :
        LET k == Len(pushed[rack])
        IN  (0 < k /\ k < WindowSize) =>
                GetWindow(rack) =
                    [i \in 1..(WindowSize - k) |-> pushed[rack][1]] \o pushed[rack]

(***************************************************************************)
(* Properties of the audit log                                             *)
(***************************************************************************)
\* the audits table after the step is the table before it with one row appended
OneAuditAppended ==
    /\ Len(audits') = Len(audits) + 1
    /\ SubSeq(audits', 1, Len(audits)) = audits

\* C25 as claimed: every operator- or system-initiated transition appends an
\* audit entry: a change of mode, a change of auto_enabled and each successful
\* approve_action call adds exactly one row to audits, and audits rows are never
\* modified or removed.
C25_EveryTransitionIsAudited ==
    [][/\ mode' # mode => OneAuditAppended
       /\ auto_enabled' # auto_enabled => OneAuditAppended
       /\ (ApproveStep /\ approve_calls'[Len(approve_calls')].ok) => OneAuditAppended
       /\ Len(audits') >= Len(audits)
       /\ SubSeq(audits', 1, Len(audits)) = audits]_vars

(***************************************************************************)
(* Properties of failure handling                                          *)
(***************************************************************************)
\* this step ended in an exception raised by the named call
RaisedBy(ops) ==
    /\ Len(raised') = Len(raised) + 1
    /\ raised'[Len(raised')].op \in ops

\* the messages published so that each carries the command of a stored Action
PublishedHaveRows(pub, rows) ==
    \A j \in 1..Len(pub) :
        \/ pub[j].topic = DiscoverStartTopic
        \/ \E i \in 1..Len(rows) : pub[j].payload = StoredCommand(rows[i])

\* C26: no command or proposal is ever published for an Action that has no row
\* in the ledger: the row is inserted before any publish for it, and if
\* inserting the Action fails nothing is published for it on
\* ctrl/<device_id>/set or ctrl/proposals.
C26_NothingPublishedWithoutRow ==
    [][/\ PublishedHaveRows(published', actions')
       /\ Len(published') > Len(published) =>
             \E i \in 1..Len(actions) :
                 published'[Len(published')].payload = StoredCommand(actions[i])
       /\ RaisedBy({"record_action"}) =>
             /\ published' = published
             /\ actions' = actions
             /\ pc' = "idle"]_vars

\* an insert has failed, and a later Action was inserted and published
C26_Witness ==
    /\ \E k \in 1..Len(raised) : raised[k].op = "record_action"
    /\ Len(telemetry) = 2
    /\ Len(actions) = 1
    /\ Len(published) = 1
    /\ published[1].payload = StoredCommand(actions[1])
    /\ pc = "idle"

\* C27 as claimed: if publishing an Action on the bus fails, the Action's
\* status stays queued (auto path) or pending_manual (propose path) instead of
\* advancing to sent until a later publish of its command goes out, and no
\* second ledger row is inserted for that Action.
C27_UnpublishedActionWaitsForRetry ==
    \A i \in ActionIds :
        actions[i].id \in unpublished =>
            /\ \/ actions[i].status \in {"queued", "pending_manual"}
               \/ \E j \in 1..Len(published) : published[j].payload = StoredCommand(actions[i])
            /\ \A k \in ActionIds : actions[k].cmd_json = actions[i].cmd_json => k = i

\* C28 as claimed: a bus message with a malformed JSON payload, an unknown
\* topic or missing required fields is dropped: handle_message returns without
\* raising and leaves the feature store, tiles, dynamic device map, discovery
\* state, counters and ledger unchanged; the feature store and the device map
\* change only with a telemetry message that is processed.
C28_BadMessagesAreDropped ==
    [][/\ ~RaisedBy({"json.loads", "insert telemetry", "insert receipts"})
       /\ (buffers' # buffers \/ dynamic_devices' # dynamic_devices) =>
             Len(telemetry') = Len(telemetry) + 1]_vars

(***************************************************************************)
(* Properties of duplicate delivery                                        *)
(***************************************************************************)
\* the receipts rows written for the same message as row k: the same device_id
\* and the same ts
SameReceipt(k) ==
    {j \in 1..Len(receipts) :
        receipts[j].device_id = receipts[k].device_id /\ receipts[j].ts = receipts[k].ts}

\* C29 as claimed: handling the same receipt message twice leaves the receipts
\* table and all Action statuses exactly as handling it once: receipts are
\* deduplicated by (device_id, ts), so the table never holds two rows for one
\* message.
C29_DuplicateReceiptChangesNothing ==
    \A k \in 1..Len(receipts) : SameReceipt(k) = {k}

(***************************************************************************)
(* Properties of POST /actions/approve                                     *)
(***************************************************************************)
\* this step answered one approval request
ResponseStep == Len(http') = Len(http) + 1

\* C30: approve_action with an id that has no row in the actions table returns
\* false (HTTP 404), publishes nothing on the bus and changes no ledger row; an
\* approval request that carries no id is answered 400 without the engine being
\* called.
C30_UnknownIdIs404AndNoIdIs400 ==
    [][ResponseStep =>
          LET response == http'[Len(http')]
              id == response.request.id
          IN  /\ id = None =>
                    /\ response.status = 400
                    /\ approve_calls' = approve_calls
                    /\ UNCHANGED <<actions, published, receipts, audits, status_updates>>
              /\ (id # None /\ id[1] # 0 /\ \A i \in ActionIds : actions[i].id # id[1]) =>
                    /\ response.status = 404
                    /\ approve_calls' = Append(approve_calls, [id |-> id[1], ok |-> FALSE])
                    /\ UNCHANGED <<actions, published, receipts, audits, status_updates>>]_vars

\* with one Action stored, a request for an id without a row was answered 404
\* and a request without an id 400
C30_Witness ==
    /\ Len(actions) = 1
    /\ Len(http) = 2
    /\ http[1].request.id = Some(2)
    /\ http[1].status = 404
    /\ http[2].request.id = None
    /\ http[2].status = 400
    /\ Len(approve_calls) = 1
    /\ Len(published) = 1

(***************************************************************************)
(* Properties of the device registry                                       *)
(***************************************************************************)
\* this step is one approve_device call
ApproveDeviceStep == Len(device_calls') = Len(device_calls) + 1

\* the entries of a registry that carry the given id
WithSameId(devices_list, id) == {i \in 1..Len(devices_list) : devices_list[i].id = id}

\* C31 as claimed: after approve_device(entry) returns, the registry contains
\* exactly one entry with entry's id (the generated id "<proto>_<host>" when
\* entry has none) and that entry equals the approved entry; the call returns
\* "updated" when an entry with the same id or the same (host, proto, port)
\* existed before and "added" otherwise, and the engine's rack-to-device map is
\* rebuilt from the new registry.
C31_ApprovedEntryIsInRegistry ==
    [][ApproveDeviceStep =>
          LET call == device_calls'[Len(device_calls')]
              device == call.device
              id == IF device.id # "" THEN device.id
                    ELSE GeneratedId(device.proto, device.host)
              entry == [device EXCEPT !.id = id]
              existed == \E i \in 1..Len(registry) :
                            \/ registry[i].id = id
                            \/ /\ registry[i].host = device.host
                               /\ registry[i].proto = device.proto
                               /\ registry[i].port = device.port
          IN  /\ Cardinality(WithSameId(registry', id)) = 1
              /\ \A i \in WithSameId(registry', id) : registry'[i] = entry
              /\ call.action = IF existed THEN "updated" ELSE "added"
              /\ \A r \in Racks :
                    LET of_rack == {i \in 1..Len(registry') : registry'[i].rack = r}
                    IN  IF of_rack = {} THEN rack_device_map'[r] = ""
                        ELSE \E i \in of_rack : rack_device_map'[r] = registry'[i].id]_vars

\* C32 as claimed: after any sequence of approve_device calls starting from a
\* registry without duplicates, the registry contains no two entries with the
\* same id and no two entries with the same (host, proto, port).
C32_RegistryHasNoDuplicates ==
    \A i, j \in 1..Len(registry) :
        i # j =>
            /\ registry[i].id # registry[j].id
            /\ ~ /\ registry[i].host = registry[j].host
                 /\ registry[i].proto = registry[j].proto
                 /\ registry[i].port = registry[j].port


(***************************************************************************)
(* Properties of the device an Action is addressed to                      *)
(***************************************************************************)
\* the telemetry rows of a rack whose TelemetryPoint carried a device_id
CarryingRows(rows, rack) ==
    {i \in 1..Len(rows) : rows[i].rack = rack /\ Loads(rows[i].raw_json).device_id # ""}

\* the registry entries of a rack
RegistryEntries(rack) ==
    {i \in 1..Len(registry) : registry[i].rack = rack /\ registry[i].id # ""}

\* the device the claim names for a rack, from the handled points and the registry
ClaimedDevice(rows, rack) ==
    LET carrying == CarryingRows(rows, rack)
        entries == RegistryEntries(rack)
    IN  IF carrying # {}
        THEN Loads(rows[CHOOSE i \in carrying : \A j \in carrying : j <= i].raw_json).device_id
        ELSE IF entries # {}
        THEN registry[CHOOSE i \in entries : \A j \in entries : j <= i].id
        ELSE IF Policy.site # None THEN Policy.site[1]
        ELSE "device"

C34_SentStaysSent ==
    [][\A i \in 1..Len(actions) :
          actions[i].status = "sent" =>
              actions'[i].status \notin {"pending_manual", "queued"}]_vars

\* this step is the publish of the telemetry handler
HandlerPublishStep == pc = "inserted" /\ pc' = "published"

\* the Action of the running handler still has the status it was inserted with
StillAsInserted(status) ==
    /\ actions[frame.action_id].status = status
    /\ \A k \in 1..Len(status_updates) : status_updates[k].id # frame.action_id

\* C35 as claimed: under any interleaving of set_auto and set_mode on an HTTP
\* worker with one telemetry handler run, the status stored when the Action is
\* inserted and the topic it is published on are decided from the same values
\* of auto_enabled and mode: an Action inserted with status pending_manual is
\* never published on ctrl/<device_id>/set by the telemetry handler.
C35_PendingManualNeverPublishedOnSet ==
    [][(HandlerPublishStep /\ StillAsInserted("pending_manual")) =>
          ~IsSetTopic(published'[Len(published')].topic)]_vars


(***************************************************************************)
(* Properties of discovery under interleaving                              *)
(***************************************************************************)
\* no start_discovery, results handler or list_discoveries is under way
AllCompleted ==
    /\ start_frame.pc = "idle"
    /\ results_frame.pc = "idle"
    /\ list_pc = "idle"

\* C36 as claimed: under any interleaving of the individual state updates of
\* start_discovery with discover/results handling and list_discoveries, once
\* all started operations have completed the deadline is non-null if and only
\* if the status is running.
C36_DeadlineIffRunningWhenQuiet ==
    AllCompleted => (discovery_deadline # None <=> discovery_state.status = "running")

CanStep(t) == At(t) # "" /\ (At(t) = "acquire" => db_lock = None)

\* C37: every ledger operation runs while holding the single DB lock, so no
\* two of them overlap when called concurrently from the dispatcher and HTTP
\* workers; the lock is released after each operation, also when the
\* statement fails, and no operation acquires it twice, so no caller blocks
\* forever.
C37_LedgerOperationsHoldTheLock ==
    /\ \A t \in Threads : At(t) = "statement" => db_lock = Some(t)
    /\ \A t, u \in Threads : (At(t) = "statement" /\ At(u) = "statement") => t = u
    /\ \A t \in Threads : db_threads[t].op = "" => db_lock # Some(t)
    /\ \A t \in Threads : ~(At(t) = "acquire" /\ db_lock = Some(t))
    /\ (\E t \in Threads : db_threads[t].op # "") => \E t \in Threads : CanStep(t)

\* the dispatcher's record_receipt failed and is about to release the lock
\* the worker's get is waiting for
C37_Witness ==
    /\ db_threads["dispatcher"].op = "record_receipt"
    /\ At("dispatcher") = "release"
    /\ db_threads["dispatcher"].failed
    /\ db_lock = Some("dispatcher")
    /\ db_threads["worker"].op = "get"
    /\ At("worker") = "acquire"


(***************************************************************************)
(* Properties of the trend and anomaly triggers                            *)
(***************************************************************************)
\* the temperatures pushed for a rack so far, oldest first: one for every
\* telemetry row of the rack that has a temperature
SamplesPushed(rows, rack) ==
    LET with_temp == {i \in 1..Len(rows) : rows[i].rack = rack /\ rows[i].temp_c # None}
        nth(k) == CHOOSE i \in with_temp : Cardinality({j \in with_temp : j <= i}) = k
    IN  [k \in 1..Cardinality(with_temp) |-> rows[nth(k)].temp_c[1]]

\* the triggers recorded by this step: those of the Action it inserted, none
\* when it inserted no Action
TriggersRecorded ==
    IF Len(actions') = Len(actions) + 1
    THEN Loads(actions'[Len(actions')].cmd_json).explain.triggers
    ELSE <<>>

\* C39: the temperature_trend trigger fires for a TelemetryPoint exactly when
\* at least 6 temperature samples have been pushed for the rack and the newest
\* sample minus the 6th-newest sample is at least 0.8; with fewer than 6 pushed
\* samples it never fires.
C39_TrendNeedsSixSamples ==
    [][TelemetryStep =>
          LET row == telemetry'[Len(telemetry')]
              samples == SamplesPushed(telemetry', row.rack)
              k == Len(samples)
          IN  Has(TriggersRecorded, "temp_trend")
                  <=> (k >= 6 /\ samples[k] - samples[k - 5] >= 8)]_vars

\* an Action carries the trend trigger, and three samples rising by a whole
\* degree were handled without it
C39_Witness ==
    /\ \E i \in 1..Len(actions) :
          Has(Loads(actions[i].cmd_json).explain.triggers, "temp_trend")
    /\ \E i \in 1..Len(actions), k \in 1..Len(telemetry) :
          /\ telemetry[k].ts = actions[i].ts
          /\ k = 3
          /\ telemetry[1].temp_c # None /\ telemetry[3].temp_c # None
          /\ telemetry[3].temp_c[1] - telemetry[1].temp_c[1] >= 8
          /\ ~Has(Loads(actions[i].cmd_json).explain.triggers, "temp_trend")

\* the samples are all equal, or there is none
Constant(samples) == \A i, j \in 1..Len(samples) : samples[i] = samples[j]

\* C40: when all samples in a rack's temperature window are equal, or none has
\* been pushed yet, the anomaly score is 1.0 and the alarm is raised, so
\* handling that TelemetryPoint records the anomaly trigger and emits an Action
\* even though no metric is out of range.
C40_ConstantWindowRaisesAlarm ==
    [][TelemetryStep =>
          LET row == telemetry'[Len(telemetry')]
              samples == KeepTail(SamplesPushed(telemetry', row.rack), WindowSize)
          IN  Constant(samples) =>
                  /\ Len(anomalies') = Len(anomalies) + 1
                  /\ anomalies'[Len(anomalies')].score.dev = 0
                  /\ anomalies'[Len(anomalies')].is_alarm = 1
                  /\ Len(actions') = Len(actions) + 1
                  /\ Has(TriggersRecorded, "vae")]_vars

\* an Action whose only trigger is the anomaly was emitted for a first point
\* without a temperature, and another for a point at 25 C
C40_Witness ==
    /\ \E i \in 1..Len(actions) :
          /\ telemetry[1].ts = actions[i].ts
          /\ telemetry[1].temp_c = None
          /\ Loads(actions[i].cmd_json).explain.triggers = <<"vae">>
    /\ \E i \in 1..Len(actions), k \in 1..Len(telemetry) :
          /\ telemetry[k].ts = actions[i].ts
          /\ telemetry[k].temp_c = Some(250)
          /\ Loads(actions[i].cmd_json).explain.triggers = <<"vae">>

=============================================================================
